---- MODULE Spec2Model ----
(***************************************************************************)
(* A model of the p2p-chat session layer: the ChatClient (package client), *)
(* the Transport Peer it owns (package webrtc, RealPeer), the signaling    *)
(* codec (package signaling) and the wire protocol (package protocol).     *)
(*                                                                         *)
(* Every variable is a function of the session ("A" or "B"): one           *)
(* ChatClient with its RealPeer each.  Goroutines started with `go` are    *)
(* tasks in the bag `pending`; they run in any order.                      *)
(***************************************************************************)
EXTENDS Integers, Sequences, FiniteSets, Bags, TLC

\* ------------------------------------------------------------------ bounds
MaxSeqNotif == 5      \* notifications delivered one at a time (SpecSeq)
MaxConc     == 2      \* notifications delivered concurrently (SpecConc)
MaxNotif    == 1      \* notifications delivered beside the session's calls (Spec)
MaxOps      == 2      \* session calls (Spec)
MaxHSOps    == 3      \* session calls of each side of the handshake (SpecHS)

\* --------------------------------------------------------------- constants
Sessions == {"A", "B"}
Other(s) == IF s = "A" THEN "B" ELSE "A"

\* ChatClient.username: set by NewChatClient, never written again.
Username(s) == IF s = "A" THEN "alice" ELSE "bob"

\* A nil func value, and the func values a caller registers.
Nil == 0
Callbacks == {1, 2}

\* The strings RealPeer hands to the OnStateChange callback
\* (webrtc.PeerConnectionState.String()).
StateNames == {"new", "connecting", "connected", "disconnected", "failed", "closed"}

\* protocol message types and the body bound.
TypeChat  == "chat"
TypeJoin  == "join"
TypeLeave == "leave"
MaxTextLength == 1000

\* The clock reading time.Now().UnixMilli() stamps on a new message.
Now == 1

\* Texts a caller can pass, with len(text) in bytes.
Texts == {"", "hi"}
\* "max": 1000 bytes of ASCII; "long": 1001; "wide": 1000 two-byte characters;
\* "raw": the byte 0xFF, no valid UTF-8; "fffd": the character U+FFFD.
StrLen(t) ==
    CASE t = "" -> 0 [] t = "hi" -> 2 [] t = "max" -> 1000 [] t = "long" -> 1001
      [] t = "wide" -> 2000 [] t = "raw" -> 1 [] t = "fffd" -> 3 [] OTHER -> 5
\* encoding/json, writing and reading a string: invalid UTF-8 becomes U+FFFD.
ToValidUTF8(t) == IF t = "raw" THEN "fffd" ELSE t

VARIABLES
    isConnected,   \* ChatClient.isConnected
    roomCode,      \* ChatClient.roomCode
    slots,         \* ChatClient.onMessage / onConnected / onDisconnected / onError
    handlers,      \* the OnStateChange handler's invocations, one per notification
    pending,       \* goroutines started and not yet run (a bag of tasks)
    peer,          \* RealPeer and the engine behind it
    wire,          \* what peer.Send handed to the engine, in order
    inbox,         \* how many records of the other side's wire were delivered
    call,          \* the last session call: arguments, state on entry, result
    lastLocked,    \* the last holder of ChatClient.mu
    notifs,        \* the state notifications delivered one at a time so far
    writes,        \* flag changes made under the lock, with the callback snapshot
    fired,         \* callbacks dispatched (`go callback()`), in dispatch order
    calls,         \* callbacks run, in the order the caller observes them
    budget,        \* session calls the caller still makes
    probe,         \* the last application of a codec or wire-protocol function
    mu,            \* ChatClient.mu and RealPeer.mu: the writer and the readers
    threads,       \* goroutines followed statement by statement
    peerSlots,     \* RealPeer.onMessage and RealPeer.onStateChange
    running        \* the session call that holds ChatClient.mu between two steps

vars == <<isConnected, roomCode, slots, handlers, pending, peer, wire, inbox,
          call, lastLocked, notifs, writes, fired, calls, budget, probe, mu, threads, peerSlots,
          running>>

Upd(f, s, v) == [f EXCEPT ![s] = v]

\* ------------------------------------------------------------ wire protocol
\* protocol.Message; NewMessage stamps the clock and validates nothing.
NewMessage(msgType, from, text) ==
    [type |-> msgType, from |-> from, text |-> text, timestamp |-> Now]

ZeroMessage == [type |-> "", from |-> "", text |-> "", timestamp |-> 0]

\* Bytes on the channel: a JSON object (the fields it holds), or bytes that are
\* no JSON (json = FALSE), followed or not by one newline.
Fields == {"type", "from", "text", "timestamp"}

\* json.Marshal of the struct writes all four fields; Marshal appends '\n'.
Marshal(msg) ==
    [json |-> TRUE, nl |-> TRUE,
     fields |-> [type |-> ToValidUTF8(msg.type), from |-> ToValidUTF8(msg.from),
                 text |-> ToValidUTF8(msg.text), timestamp |-> msg.timestamp]]

\* json.Unmarshal into a zero Message: an absent field keeps its zero value.
ParseFields(f) ==
    [k \in Fields |-> IF k \notin DOMAIN f THEN ZeroMessage[k]
                      ELSE IF k = "timestamp" THEN f[k]
                      ELSE ToValidUTF8(f[k])]

\* The checks with the sender tested before the type.
validateMessageFromFirst(msg) ==
    IF msg.from = "" THEN "from field is required"
    ELSE IF msg.type = "" THEN "message type is required"
    ELSE IF msg.type \notin {TypeChat, TypeJoin, TypeLeave} THEN "invalid message type"
    ELSE IF StrLen(msg.text) > MaxTextLength THEN "message text exceeds maximum length"
    ELSE IF msg.timestamp < 0 THEN "invalid timestamp"
    ELSE "nil"
validateMessage(msg) ==
    IF msg.type = "" THEN "message type is required"
    ELSE IF msg.from = "" THEN "from field is required"
    ELSE IF msg.type \notin {TypeChat, TypeJoin, TypeLeave} THEN "invalid message type"
    ELSE IF StrLen(msg.text) > MaxTextLength THEN "message text exceeds maximum length"
    ELSE IF msg.timestamp < 0 THEN "invalid timestamp"
    ELSE "nil"

\* An Unmarshal that returns what it parsed with the validation error.
UnmarshalLeaky(data) ==
    IF ~data.json THEN [msg |-> ZeroMessage, err |-> "invalid JSON format"]
    ELSE [msg |-> ParseFields(data.fields), err |-> validateMessage(ParseFields(data.fields))]
\* Unmarshal: <<message, error>>; the zero message on every failure.
Unmarshal(data) ==
    IF ~data.json THEN [msg |-> ZeroMessage, err |-> "invalid JSON format"]
    ELSE LET m == ParseFields(data.fields)
             e == validateMessage(m)
         IN IF e # "nil" THEN [msg |-> ZeroMessage, err |-> e]
            ELSE [msg |-> m, err |-> "nil"]

\* ---------------------------------------------------------- signaling codec
MaxSDPSize == 4 * 1024 * 1024
MinEncodedLength == 10

\* A text handed to the codec: its length in bytes (len), the code points
\* `range` yields over it (runes) and the length of its deflate stream (z),
\* which its content determines: the blocks of the text and the empty stored
\* block (5 bytes with its padding) gzip.Writer.Close ends the stream with. A descriptor as RealPeer.sdpToString renders
\* it is the JSON of type and sdp (the sdp named after the peer that produced
\* it): printable ASCII, its size within the codec's limits.
Text(type, sdp, len, runes, z) ==
    [type |-> type, sdp |-> sdp, len |-> len, runes |-> runes, z |-> z]
Ascii == {34, 58, 97, 123, 125}      \* " : a { }
Descriptor(type, s) == Text(type, s, 300, Ascii, 200)
EmptyText == Text("", "", 0, {}, 5)
HelloText == Text("text", "hello", 5, {101, 104, 108, 111}, 11)
IsDescriptor(x) == x.type \in {"offer", "answer"}

\* compressString: a gzip stream is a 10-byte header, the deflate stream and an
\* 8-byte trailer.
GzipLen(x) == 18 + x.z

\* base64.URLEncoding.EncodeToString of n bytes: the '=' it ends with and the
\* other characters, all in the base64url alphabet.
B64Pad(n) == (3 - (n % 3)) % 3
B64Chars(n) == (4 * ((n + 2) \div 3)) - B64Pad(n)

\* An encoding that keeps the padding.
KeepRight(pad) == pad
\* strings.TrimRight(encoded, "="): the '=' left at the end.
TrimRight(pad) == 0

\* A token: its length in bytes, whether all its characters are in the
\* base64url alphabet, whether its base64 decoding is a whole gzip stream, and
\* the text that stream holds.
Token(len, alpha, gz, payload) == [len |-> len, alpha |-> alpha, gz |-> gz, payload |-> payload]
EmptyToken == Token(0, TRUE, FALSE, EmptyText)      \* ""
ShortToken == Token(3, TRUE, FALSE, EmptyText)      \* "abc"
PlusToken  == Token(12, FALSE, FALSE, EmptyText)    \* "abc+def/ghi="
JunkToken  == Token(12, TRUE, FALSE, EmptyText)     \* "AAAAAAAAAAAA"

\* The token of a gzip stream of n bytes holding x: base64url, then the trim.
TokenOf(x, n) ==
    LET pad == TrimRight(B64Pad(n))
    IN Token(B64Chars(n) + pad, pad = 0, TRUE, x)

\* Encode: the empty and the size check, gzip, base64url without padding.
Encode(sdp) ==
    IF sdp.len = 0 THEN [tok |-> EmptyToken, err |-> "SDP cannot be empty"]
    ELSE IF sdp.len > MaxSDPSize THEN [tok |-> EmptyToken, err |-> "SDP too large"]
    ELSE [tok |-> TokenOf(sdp, GzipLen(sdp)), err |-> "nil"]

\* A test that only refuses the empty string.
isValidBase64URLAny(encoded) == encoded.len # 0
\* isValidBase64URL.
isValidBase64URL(encoded) == encoded.len # 0 /\ encoded.alpha

\* addBase64Padding: the '=' appended.
addBase64Padding(n) ==
    CASE n % 4 = 2 -> 2
      [] n % 4 = 3 -> 1
      [] OTHER -> 0

\* base64.URLEncoding.DecodeString of n alphabet characters and pad '=': it
\* fails unless they make whole groups of 4; the bytes it yields.
B64Ok(n, pad) == (n + pad) % 4 = 0
B64Bytes(n, pad) == (3 * ((n + pad) \div 4)) - pad

\* decompressBytes: the bytes must be the whole gzip stream of the payload.
GzipOk(encoded, bytes) == encoded.gz /\ bytes = GzipLen(encoded.payload)

\* A test that admits ASCII only.
isPrintableAscii(x) ==
    \A r \in x.runes : (r >= 32 /\ r <= 126) \/ r = 9 \/ r = 10 \/ r = 13
\* isPrintableText.
isPrintableText(x) ==
    \A r \in x.runes :
        \/ (r >= 32 /\ r <= 126) \/ r = 9 \/ r = 10 \/ r = 13
        \/ (r >= 128 /\ r <= 1114111) \/ r = 160

\* Decode: the checks in the code's order; the empty text with every error.
Decode(encoded) ==
    LET pad == addBase64Padding(encoded.len)
        fail(e) == [sdp |-> EmptyText, err |-> e]
    IN IF encoded.len = 0 THEN fail("encoded string cannot be empty")
       ELSE IF encoded.len < MinEncodedLength THEN fail("encoded string too short")
       ELSE IF ~isValidBase64URL(encoded)
            THEN fail("invalid base64url characters in encoded string")
       ELSE IF ~B64Ok(encoded.len, pad) THEN fail("failed to decode base64url")
       ELSE IF ~GzipOk(encoded, B64Bytes(encoded.len, pad)) THEN fail("failed to decompress data")
       ELSE IF encoded.payload.len > MaxSDPSize THEN fail("decompressed SDP too large")
       ELSE IF encoded.payload.len > 0 /\ ~isPrintableText(encoded.payload)
            THEN fail("result contains non-printable characters")
       ELSE [sdp |-> encoded.payload, err |-> "nil"]

\* Tokens a caller can paste.
TextToken == Encode(HelloText).tok
OfferToken(s) == Encode(Descriptor("offer", s)).tok
AnswerToken(s) == Encode(Descriptor("answer", s)).tok
\* A well-formed descriptor whose SDP body no engine wrote
\* ({"type":"answer","sdp":"invalid"}), and its token.
BadSdp(type) == Descriptor(type, "invalid")
BadSdpToken(type) == Encode(BadSdp(type)).tok
\* pc.LocalDescription(): the local description the connection has at the
\* moment of the call, the one set last (the engine keeps a pending one
\* before the current one), whichever call set it.
LocalDescription(p, s) == Descriptor(p.local, s)
\* What sdpToString can render of it for session s: a descriptor, of a size
\* Encode takes or, with an SDP body past 4 MiB, of a size it refuses.
Rendered(p, s) == {LocalDescription(p, s), Text(p.local, s, MaxSDPSize + 1, Ascii, 4096)}
\* The description a call builds and sets: an offer in CreateRoom and
\* CreateOffer, an answer in JoinRoom and CreateAnswer.
LocalType(op) == IF op \in {"CreateRoom", "PeerCreateOffer"} THEN "offer" ELSE "answer"
BadTokens == {EmptyToken, ShortToken, PlusToken, JunkToken}

\* ------------------------------------------------------------------- tasks
\* A goroutine started with `go`: a callback invocation, the delayed join
\* send, or Disconnect's delayed notification.
Task(kind, ev, f, arg) == [kind |-> kind, ev |-> ev, f |-> f, arg |-> arg]
Spawn(bag, t) == bag (+) SetToBag({t})
Unspawn(bag, t) == bag (-) SetToBag({t})

SlotNames == {"onMessage", "onConnected", "onDisconnected", "onError"}
IdleHandler == [pc |-> "idle", state |-> "new", was |-> FALSE, cc |-> Nil, dc |-> Nil]
\* A call the peer received from the session: the operation, the bytes handed
\* over (Send) and the error it returned.
NoData == [json |-> FALSE, fields |-> ZeroMessage, nl |-> FALSE]
PeerOp(op, data, err) == [op |-> op, data |-> data, err |-> err]
NoPre == [isConnected |-> FALSE, roomCode |-> EmptyToken,
          slots |-> [k \in SlotNames |-> Nil], last |-> "none", applied |-> FALSE, delayed |-> 0]
NoCall == [op |-> "none", text |-> "", code |-> EmptyToken, err |-> "nil", val |-> EmptyToken,
           peerOps |-> <<>>, sched |-> FALSE, pre |-> NoPre]
NewPeer == [dc |-> "nil", closed |-> FALSE, sig |-> "stable", armed |-> FALSE, neg |-> FALSE,
            local |-> "none"]
\* No call of the session stands between two of its steps.
NoRun == [op |-> "none", code |-> EmptyToken, ops |-> <<>>, pre |-> NoPre]

\* sync.RWMutex: the goroutine holding it for writing (0: none) and those
\* holding it for reading.
Unlocked == [w |-> 0, r |-> {}]

\* No function applied yet.
NoProbe == [fn |-> "none"]

\* NewChatClient: a fresh peer, no room, not connected, no callback registered.
\* `n`: the number of calls the caller goes on to make.
InitWith(n) ==
    /\ isConnected = [s \in Sessions |-> FALSE]
    /\ roomCode = [s \in Sessions |-> EmptyToken]
    /\ slots = [s \in Sessions |-> [k \in SlotNames |-> Nil]]
    /\ handlers = [s \in Sessions |-> <<>>]
    /\ pending = [s \in Sessions |-> EmptyBag]
    /\ peer = [s \in Sessions |-> NewPeer]
    /\ wire = [s \in Sessions |-> <<>>]
    /\ inbox = [s \in Sessions |-> 0]
    /\ call = [s \in Sessions |-> NoCall]
    /\ lastLocked = [s \in Sessions |-> "none"]
    /\ notifs = [s \in Sessions |-> <<>>]
    /\ writes = [s \in Sessions |-> <<>>]
    /\ fired = [s \in Sessions |-> <<>>]
    /\ calls = [s \in Sessions |-> <<>>]
    /\ budget = [s \in Sessions |-> n]
    /\ probe = NoProbe
    /\ mu = [client |-> Unlocked, peer |-> Unlocked]
    /\ threads = <<>>
    /\ peerSlots = [onMessage |-> 1, onStateChange |-> 1]
    /\ running = [s \in Sessions |-> NoRun]

Init == InitWith(MaxOps)

\* ------------------------------------------------------------ RealPeer.Send
\* Send fails unless the data channel exists and is open; an open channel
\* hands the bytes to the engine, which reports success or an error.
ChannelOpen(p) == p.dc = "open"
\* A Send that tests only whether a data channel exists.
PeerSendNoReadyState(p, ok) ==
    IF p.dc = "nil" THEN "data channel not open"
    ELSE IF ~ok THEN "send failed"
    ELSE "nil"
PeerSend(p, ok) ==
    IF ~ChannelOpen(p) THEN "data channel not open"
    ELSE IF ~ok THEN "send failed"
    ELSE "nil"

\* ChatClient.mu is free: no call of the session waits or works with the lock
\* held. CreateRoom and JoinRoom wait at `<-gatherComplete` inside the peer,
\* Disconnect works between its leave message and peer.Close; what takes the
\* lock waits for them, what takes none goes on.
Free(s) == running[s].op = "none"

\* ------------------------------------------------- callback registration
\* OnMessage / OnConnected / OnDisconnected / OnError: lock, assign, unlock.
SetCallback(s, slot, f) ==
    /\ Free(s)
    /\ slots' = Upd(slots, s, [slots[s] EXCEPT ![slot] = f])
    /\ lastLocked' = Upd(lastLocked, s, slot)
    /\ UNCHANGED <<isConnected, roomCode, handlers, pending, peer, wire, inbox,
                   call, notifs, writes, fired, calls, budget>>
    /\ UNCHANGED <<probe, mu, threads, peerSlots, running>>

OnMessage(s, f) == SetCallback(s, "onMessage", f)
OnConnected(s, f) == SetCallback(s, "onConnected", f)
OnDisconnected(s, f) == SetCallback(s, "onDisconnected", f)
OnError(s, f) == SetCallback(s, "onError", f)

\* A session nothing has been asked of and nothing was reported to.
Fresh(s) == handlers[s] = <<>> /\ call[s].op = "none"

\* ------------------------------------------- the OnStateChange handler
\* The engine calls the handler with a state, each call on its own goroutine:
\* handlers[s][h] is the invocation for the h-th notification.
InFlight(s) == {h \in DOMAIN handlers[s] : handlers[s][h].pc # "idle"}

Deliver(s, state) ==
    /\ handlers' = Upd(handlers, s, Append(handlers[s],
                        [IdleHandler EXCEPT !.pc = "lock", !.state = state]))
    /\ UNCHANGED <<isConnected, roomCode, slots, pending, peer, wire, inbox,
                   call, lastLocked, writes, fired, calls, budget>>
    /\ UNCHANGED <<probe, mu, threads, peerSlots, running>>

\* Notifications delivered one at a time: the next one after the handler
\* returned. The sequence delivered is kept in notifs.
NotifySeq(s, state) ==
    /\ Len(handlers[s]) < MaxSeqNotif
    /\ InFlight(s) = {}
    /\ Deliver(s, state)
    /\ notifs' = Upd(notifs, s, Append(notifs[s], state))

\* Notifications delivered beside the session's calls.
Notify(s, state) ==
    /\ Len(handlers[s]) < MaxNotif
    /\ Deliver(s, state)
    /\ UNCHANGED notifs

\* Notifications delivered while earlier handler invocations still run.
NotifyConc(s, state) ==
    /\ Len(handlers[s]) < MaxConc
    /\ Deliver(s, state)
    /\ UNCHANGED notifs

\* A switch without the case for "connected".
MapStateMissesConnected(state, cur) ==
    CASE state \in {"disconnected", "failed", "closed"} -> FALSE
      [] OTHER -> cur
\* The switch on the state: the value the flag is given.
MapState(state, cur) ==
    CASE state = "connected" -> TRUE
      [] state \in {"disconnected", "failed", "closed"} -> FALSE
      [] OTHER -> cur

\* Lock; wasConnected := isConnected; the switch; snapshot the two callbacks; unlock.
HandlerLocked(s, h) ==
    /\ Free(s)
    /\ h \in InFlight(s)
    /\ handlers[s][h].pc = "lock"
    /\ LET new == MapState(handlers[s][h].state, isConnected[s])
           cb == IF new THEN slots[s]["onConnected"] ELSE slots[s]["onDisconnected"]
       IN /\ isConnected' = Upd(isConnected, s, new)
          /\ handlers' = Upd(handlers, s, [handlers[s] EXCEPT ![h] =
                  [@ EXCEPT !.pc = "check1", !.was = isConnected[s],
                            !.cc = slots[s]["onConnected"], !.dc = slots[s]["onDisconnected"]]])
          /\ writes' = IF new # isConnected[s]
                       THEN Upd(writes, s, Append(writes[s],
                                [ev |-> IF new THEN "connected" ELSE "disconnected", f |-> cb]))
                       ELSE writes
          /\ lastLocked' = Upd(lastLocked, s, "handler")
    /\ UNCHANGED <<roomCode, slots, pending, peer, wire, inbox, call, notifs,
                   fired, calls, budget>>
    /\ UNCHANGED <<probe, mu, threads, peerSlots, running>>

\* A level-triggered first test: taken whenever the flag is set.
JustConnectedLevel(cur, was) == cur
\* `if c.isConnected && !wasConnected`: the flag is read again, without the lock.
JustConnected(cur, was) == cur /\ ~was
\* `else if !c.isConnected && wasConnected`: and once more.
JustDisconnected(cur, was) == ~cur /\ was

\* The first test. Taken: build the join message, start the delayed send and,
\* if a connected callback was snapshotted, `go connectedCallback()`.
HandlerCheck1(s, h) ==
    /\ h \in InFlight(s)
    /\ handlers[s][h].pc = "check1"
    /\ IF JustConnected(isConnected[s], handlers[s][h].was)
       THEN LET join == Task("join", "send", Nil, Marshal(NewMessage(TypeJoin, Username(s), "")))
                cb == Task("callback", "connected", handlers[s][h].cc, ZeroMessage)
            IN /\ pending' = Upd(pending, s,
                      IF handlers[s][h].cc # Nil THEN Spawn(Spawn(pending[s], join), cb)
                      ELSE Spawn(pending[s], join))
               /\ fired' = IF handlers[s][h].cc # Nil
                           THEN Upd(fired, s, Append(fired[s], [ev |-> "connected", f |-> handlers[s][h].cc]))
                           ELSE fired
               /\ handlers' = Upd(handlers, s, [handlers[s] EXCEPT ![h] = IdleHandler])
       ELSE /\ handlers' = Upd(handlers, s, [handlers[s] EXCEPT ![h].pc = "check2"])
            /\ UNCHANGED <<pending, fired>>
    /\ UNCHANGED <<isConnected, roomCode, slots, peer, wire, inbox, call, lastLocked,
                   notifs, writes, calls, budget>>
    /\ UNCHANGED <<probe, mu, threads, peerSlots, running>>

\* The second test. Taken: `go disconnectedCallback()` if one was snapshotted.
HandlerCheck2(s, h) ==
    /\ h \in InFlight(s)
    /\ handlers[s][h].pc = "check2"
    /\ IF JustDisconnected(isConnected[s], handlers[s][h].was) /\ handlers[s][h].dc # Nil
       THEN /\ pending' = Upd(pending, s, Spawn(pending[s],
                              Task("callback", "disconnected", handlers[s][h].dc, ZeroMessage)))
            /\ fired' = Upd(fired, s, Append(fired[s], [ev |-> "disconnected", f |-> handlers[s][h].dc]))
       ELSE UNCHANGED <<pending, fired>>
    /\ handlers' = Upd(handlers, s, [handlers[s] EXCEPT ![h] = IdleHandler])
    /\ UNCHANGED <<isConnected, roomCode, slots, peer, wire, inbox, call, lastLocked,
                   notifs, writes, calls, budget>>
    /\ UNCHANGED <<probe, mu, threads, peerSlots, running>>

\* ------------------------------------------------ the OnMessage handler
\* What the error callback is given: the Unmarshal error, wrapped.
InvalidMessage(e) == [error |-> "invalid message received", cause |-> e]

\* A handler that hands the zero message of a failed Unmarshal to the message
\* callback.
InboundTaskNoErrorPath(sl, r) == Task("callback", "message", sl["onMessage"], r.msg)
\* A handler that logs join and leave messages and forwards chat messages only.
InboundTaskChatOnly(sl, r) ==
    IF r.err # "nil"
    THEN Task("callback", "error", sl["onError"], InvalidMessage(r.err))
    ELSE Task("callback", "message", IF r.msg.type = TypeChat THEN sl["onMessage"] ELSE Nil, r.msg)
\* The goroutine the handler starts for the result `r` of Unmarshal, with the
\* callback it snapshotted (Nil: none registered, nothing is started).
InboundTask(sl, r) ==
    IF r.err # "nil"
    THEN Task("callback", "error", sl["onError"], InvalidMessage(r.err))
    ELSE Task("callback", "message", sl["onMessage"], r.msg)

\* The engine hands the next record the other side sent to the data channel's
\* OnMessage, which calls the session's handler: Unmarshal; on an error the
\* error callback is snapshotted under the read lock, otherwise the message
\* callback; the lock is released. The invocation stands before its test of
\* the snapshot (kind "inbound"). The engine reads the channel in one loop: it
\* calls the handler for a record after the call for the one before returned.
Receive(s) ==
    /\ Free(s)
    /\ \A u \in BagToSet(pending[s]) : u.kind # "inbound"
    /\ ChannelOpen(peer[s])
    /\ inbox[s] < Len(wire[Other(s)])
    /\ inbox' = Upd(inbox, s, inbox[s] + 1)
    /\ LET t == InboundTask(slots[s], Unmarshal(wire[Other(s)][inbox[s] + 1]))
       IN pending' = Upd(pending, s, Spawn(pending[s], [t EXCEPT !.kind = "inbound"]))
    /\ UNCHANGED <<isConnected, roomCode, slots, handlers, peer, wire, call, lastLocked,
                   notifs, writes, fired, calls, budget>>
    /\ UNCHANGED <<probe, mu, threads, peerSlots, running>>

\* The handler after the unlock: `go callback(...)` if the snapshot is not
\* nil, and the return.
ReceiveDispatch(s, t) ==
    /\ BagIn(t, pending[s])
    /\ t.kind = "inbound"
    /\ pending' = Upd(pending, s,
            IF t.f # Nil THEN Spawn(Unspawn(pending[s], t), [t EXCEPT !.kind = "callback"])
            ELSE Unspawn(pending[s], t))
    /\ fired' = IF t.f # Nil
                THEN Upd(fired, s, Append(fired[s], [ev |-> t.ev, f |-> t.f]))
                ELSE fired
    /\ UNCHANGED <<isConnected, roomCode, slots, handlers, peer, wire, inbox, call,
                   lastLocked, notifs, writes, calls, budget>>
    /\ UNCHANGED <<probe, mu, threads, peerSlots, running>>

\* ----------------------------------------------------------- goroutines
\* A dispatched callback runs: the caller observes the invocation.
RunCallback(s, t) ==
    /\ BagIn(t, pending[s])
    /\ t.kind = "callback"
    /\ pending' = Upd(pending, s, Unspawn(pending[s], t))
    /\ calls' = Upd(calls, s, Append(calls[s], [ev |-> t.ev, f |-> t.f, arg |-> t.arg]))
    /\ UNCHANGED <<isConnected, roomCode, slots, handlers, peer, wire, inbox, call,
                   lastLocked, notifs, writes, fired, budget>>
    /\ UNCHANGED <<probe, mu, threads, peerSlots, running>>

\* The delayed join send: peer.Send(data) after the sleep; an error is logged.
\* `ok`: the engine's answer on an open channel.
JoinSend(s, t, ok) ==
    /\ BagIn(t, pending[s])
    /\ t.kind = "join"
    /\ pending' = Upd(pending, s, Unspawn(pending[s], t))
    /\ wire' = IF PeerSend(peer[s], ok) = "nil"
               THEN Upd(wire, s, Append(wire[s], t.arg)) ELSE wire
    /\ UNCHANGED <<isConnected, roomCode, slots, handlers, peer, inbox, call,
                   lastLocked, notifs, writes, fired, calls, budget>>
    /\ UNCHANGED <<probe, mu, threads, peerSlots, running>>

Tasks(s) == BagToSet(pending[s])

\* -------------------------------------------------------------- RealPeer
\* The engine's signaling states (JSEP): which description may be applied when.
SetLocalOk(p, type) ==
    /\ ~p.closed
    /\ \/ type = "offer" /\ p.sig \in {"stable", "have-local-offer"}
       \/ type = "answer" /\ p.sig = "have-remote-offer"
SetRemoteOk(p, type) ==
    /\ ~p.closed
    /\ \/ type = "offer" /\ p.sig \in {"stable", "have-remote-offer"}
       \/ type = "answer" /\ p.sig = "have-local-offer"

\* The SDP body of a descriptor is one an engine wrote (it is named after the
\* peer whose engine wrote it); the engine refuses to parse any other.
SdpOk(sdp) == sdp.sdp \in Sessions

\* RealPeer.CreateDataChannel: pc.CreateDataChannel, then p.dataChannel is
\* replaced by the new channel and its handlers are set.
PeerCreateDataChannel(p) ==
    IF p.closed THEN [peer |-> p, err |-> "connection closed"]
    ELSE [peer |-> [p EXCEPT !.dc = "connecting"], err |-> "nil"]

\* pc.CreateOffer / pc.CreateAnswer: the engine builds a description and
\* changes nothing; an answer needs a remote offer.
EngineCreate(p, type) ==
    IF p.closed THEN [peer |-> p, err |-> "connection closed"]
    ELSE IF type = "answer" /\ p.sig # "have-remote-offer"
         THEN [peer |-> p, err |-> "invalid signaling state"]
    ELSE [peer |-> p, err |-> "nil"]

\* pc.SetLocalDescription with the description just built.
EngineSetLocal(p, type) ==
    IF ~SetLocalOk(p, type) THEN [peer |-> p, err |-> "invalid signaling state"]
    ELSE [peer |-> [p EXCEPT !.sig = IF type = "offer" THEN "have-local-offer" ELSE "stable",
                             !.neg = p.neg \/ type = "answer",
                             !.local = type],
          err |-> "nil"]

\* pc.SetRemoteDescription: the SDP body is parsed, then the signaling state
\* decides.
EngineSetRemote(p, sdp) ==
    IF ~SdpOk(sdp) THEN [peer |-> p, err |-> "invalid SDP"]
    ELSE IF ~SetRemoteOk(p, sdp.type) THEN [peer |-> p, err |-> "invalid signaling state"]
    ELSE [peer |-> [p EXCEPT !.sig = IF sdp.type = "offer" THEN "have-remote-offer" ELSE "stable",
                             !.neg = p.neg \/ sdp.type = "answer"],
          err |-> "nil"]

\* One engine call after another: the second is made if the first returned
\* no error.
Then(r, next(_)) == IF r.err # "nil" THEN r ELSE next(r.peer)

\* RealPeer.CreateOffer up to the wait for gathering: CreateDataChannel,
\* pc.CreateOffer, pc.SetLocalDescription.
PeerCreateOffer(p) ==
    LET create(q) == EngineCreate(q, "offer")
        setLocal(q) == EngineSetLocal(q, "offer")
    IN Then(Then(PeerCreateDataChannel(p), create), setLocal)

\* RealPeer.SetRemoteOffer: stringToSDP (any descriptor type parses), then
\* pc.SetRemoteDescription, then the OnDataChannel handler is armed.
PeerSetRemoteOffer(p, sdp) ==
    LET r == EngineSetRemote(p, sdp)
    IN IF ~IsDescriptor(sdp) THEN [peer |-> p, err |-> "no descriptor"]
       ELSE IF r.err # "nil" THEN r
       ELSE [peer |-> [r.peer EXCEPT !.armed = TRUE], err |-> "nil"]

\* RealPeer.CreateAnswer up to the wait for gathering: SetRemoteOffer,
\* pc.CreateAnswer, pc.SetLocalDescription.
PeerCreateAnswer(p, offer) ==
    LET create(q) == EngineCreate(q, "answer")
        setLocal(q) == EngineSetLocal(q, "answer")
    IN Then(Then(PeerSetRemoteOffer(p, offer), create), setLocal)

\* RealPeer.SetRemoteAnswer: stringToSDP, then pc.SetRemoteDescription.
PeerSetRemoteAnswer(p, sdp) ==
    IF ~IsDescriptor(sdp) THEN [peer |-> p, err |-> "no descriptor"]
    ELSE EngineSetRemote(p, sdp)

\* A Close that reports an already closed connection.
PeerCloseStrict(p, engineErr) ==
    [peer |-> [p EXCEPT !.dc = IF p.dc = "nil" THEN "nil" ELSE "closed", !.closed = TRUE],
     err |-> IF p.closed \/ engineErr THEN "close failed" ELSE "nil"]
\* RealPeer.Close: close the data channel if there is one, then the connection.
\* The engine's error on closing is returned; closing a closed connection
\* returns nil (TestRealPeer_Close).
PeerClose(p, engineErr) ==
    [peer |-> [p EXCEPT !.dc = IF p.dc = "nil" THEN "nil" ELSE "closed", !.closed = TRUE],
     err |-> IF ~p.closed /\ engineErr THEN "close failed" ELSE "nil"]

\* The engine opens the data channel once both descriptions are applied: the
\* offerer's own channel, or the answerer's inbound one (OnDataChannel).
ChannelOpens(s) ==
    /\ ~peer[s].closed
    /\ peer[s].neg
    /\ \/ peer[s].dc = "connecting"
       \/ peer[s].dc = "nil" /\ peer[s].armed
    /\ peer' = Upd(peer, s, [peer[s] EXCEPT !.dc = "open"])
    /\ UNCHANGED <<isConnected, roomCode, slots, handlers, pending, wire, inbox,
                   call, lastLocked, notifs, writes, fired, calls, budget>>
    /\ UNCHANGED <<probe, mu, threads, peerSlots, running>>

\* ------------------------------------------------------ ChatClient calls
\* Each call holds ChatClient.mu from its first statement to its return. A
\* call that neither waits nor makes two calls of the peer is one step;
\* CreateRoom and JoinRoom are two, around the wait for the engine inside
\* the peer, and Disconnect is two, its Send and its Close.
Pre(s) == [isConnected |-> isConnected[s], roomCode |-> roomCode[s], slots |-> slots[s],
           last |-> lastLocked[s], applied |-> peer[s].neg,
           delayed |-> CopiesIn(Task("delayed", "disconnected", Nil, NoData), pending[s])]
ResultOf(pre, op, text, code, err, val, ops, sched) ==
    [op |-> op, text |-> text, code |-> code, err |-> err, val |-> val, peerOps |-> ops,
     sched |-> sched, pre |-> pre]
Result(s, op, text, code, err, val, ops, sched) ==
    ResultOf(Pre(s), op, text, code, err, val, ops, sched)
\* The call takes the lock.
Enters(s, op) ==
    /\ Free(s)
    /\ budget[s] > 0
    /\ lastLocked' = Upd(lastLocked, s, op)
\* The call returns: the caller has one call less to make.
Returns(s) == budget' = Upd(budget, s, budget[s] - 1)
Called(s, op) == Enters(s, op) /\ Returns(s)
\* The call stays in the peer, or between two calls of it, with the lock.
Stays(s, op, code, ops) ==
    /\ running' = Upd(running, s, [op |-> op, code |-> code, ops |-> ops, pre |-> Pre(s)])
    /\ UNCHANGED <<call, budget>>

\* What CreateRoom and JoinRoom return when the peer call, or Encode, failed:
\* the error wrapped.
PeerFailure(op) == IF op = "CreateRoom" THEN "failed to create offer" ELSE "failed to create answer"
EncodeFailure(op) == IF op = "CreateRoom" THEN "failed to encode offer" ELSE "failed to encode answer"

\* CreateRoom from the lock to the wait for gathering inside peer.CreateOffer,
\* or to the return if it does not get there.
CreateRoom(s) ==
    /\ Enters(s, "CreateRoom")
    /\ LET r == PeerCreateOffer(peer[s])
       IN IF isConnected[s]
          THEN /\ call' = Upd(call, s, Result(s, "CreateRoom", "", EmptyToken,
                                   "already connected to a room", EmptyToken, <<>>, FALSE))
               /\ Returns(s)
               /\ UNCHANGED <<peer, running>>
          ELSE IF r.err # "nil"
          THEN /\ call' = Upd(call, s, Result(s, "CreateRoom", "", EmptyToken,
                                   PeerFailure("CreateRoom"), EmptyToken,
                                   <<PeerOp("CreateOffer", NoData, r.err)>>, FALSE))
               /\ Returns(s)
               /\ peer' = Upd(peer, s, r.peer)
               /\ UNCHANGED running
          ELSE /\ peer' = Upd(peer, s, r.peer)
               /\ Stays(s, "CreateRoom", EmptyToken, <<>>)
    /\ UNCHANGED <<isConnected, roomCode, slots, handlers, pending, wire, inbox,
                   notifs, writes, fired, calls>>
    /\ UNCHANGED <<probe, mu, threads, peerSlots>>

\* JoinRoom's checks with the empty code tested first.
JoinRoomErrorEmptyFirst(connected, code) ==
    IF code = EmptyToken THEN "room code cannot be empty"
    ELSE IF connected THEN "already connected to a room"
    ELSE IF Decode(code).err # "nil" THEN "invalid room code"
    ELSE "nil"
\* JoinRoom's checks without the test for the empty code.
JoinRoomErrorNoEmpty(connected, code) ==
    IF connected THEN "already connected to a room"
    ELSE IF Decode(code).err # "nil" THEN "invalid room code"
    ELSE "nil"
\* The checks JoinRoom makes before it touches the peer, in order.
JoinRoomError(connected, code) ==
    IF connected THEN "already connected to a room"
    ELSE IF code = EmptyToken THEN "room code cannot be empty"
    ELSE IF Decode(code).err # "nil" THEN "invalid room code"
    ELSE "nil"

\* JoinRoom from the lock to the wait for gathering inside peer.CreateAnswer,
\* or to the return if it does not get there.
JoinRoom(s, code) ==
    /\ Enters(s, "JoinRoom")
    /\ LET pe == JoinRoomError(isConnected[s], code)
           r == PeerCreateAnswer(peer[s], Decode(code).sdp)
       IN IF pe # "nil"
          THEN /\ call' = Upd(call, s, Result(s, "JoinRoom", "", code, pe, EmptyToken, <<>>, FALSE))
               /\ Returns(s)
               /\ UNCHANGED <<peer, running>>
          ELSE IF r.err # "nil"
          THEN /\ call' = Upd(call, s, Result(s, "JoinRoom", "", code, PeerFailure("JoinRoom"),
                                   EmptyToken, <<PeerOp("CreateAnswer", NoData, r.err)>>, FALSE))
               /\ Returns(s)
               /\ peer' = Upd(peer, s, r.peer)
               /\ UNCHANGED running
          ELSE /\ peer' = Upd(peer, s, r.peer)
               /\ Stays(s, "JoinRoom", code, <<>>)
    /\ UNCHANGED <<isConnected, roomCode, slots, handlers, pending, wire, inbox,
                   notifs, writes, fired, calls>>
    /\ UNCHANGED <<probe, mu, threads, peerSlots>>

\* CreateRoom and JoinRoom from the end of the wait to the return: the peer
\* renders its local description (`ok`: without an error) as the text `x`,
\* the text is encoded, the room code stored.
Gathered(s, ok, x) ==
    /\ running[s].op \in {"CreateRoom", "JoinRoom"}
    /\ Returns(s)
    /\ LET c == running[s]
           e == Encode(x)
           res(err, val, perr) ==
               ResultOf(c.pre, c.op, "", c.code, err, val,
                        <<PeerOp(IF c.op = "CreateRoom" THEN "CreateOffer" ELSE "CreateAnswer",
                                 NoData, perr)>>, FALSE)
       IN IF ~ok
          THEN /\ call' = Upd(call, s, res(PeerFailure(c.op), EmptyToken, "no descriptor"))
               /\ UNCHANGED roomCode
          ELSE IF e.err # "nil"
          THEN /\ call' = Upd(call, s, res(EncodeFailure(c.op), EmptyToken, "nil"))
               /\ UNCHANGED roomCode
          ELSE /\ call' = Upd(call, s, res("nil", e.tok, "nil"))
               /\ roomCode' = Upd(roomCode, s, IF c.op = "CreateRoom" THEN e.tok ELSE c.code)
    /\ running' = Upd(running, s, NoRun)
    /\ UNCHANGED <<isConnected, slots, handlers, pending, peer, wire, inbox, lastLocked,
                   notifs, writes, fired, calls>>
    /\ UNCHANGED <<probe, mu, threads, peerSlots>>

\* The checks AcceptAnswer makes before it touches the peer, in order.
AcceptAnswerError(code) ==
    IF code = EmptyToken THEN "answer code cannot be empty"
    ELSE IF Decode(code).err # "nil" THEN "invalid answer code"
    ELSE "nil"

\* An AcceptAnswer that drops the error of peer.SetRemoteAnswer.
AcceptAnswerDropsError(s, code) ==
    /\ Called(s, "AcceptAnswer")
    /\ LET pe == AcceptAnswerError(code)
           r == PeerSetRemoteAnswer(peer[s], Decode(code).sdp)
       IN IF pe # "nil"
          THEN /\ call' = Upd(call, s, Result(s, "AcceptAnswer", "", code, pe, EmptyToken, <<>>, FALSE))
               /\ UNCHANGED peer
          ELSE /\ call' = Upd(call, s, Result(s, "AcceptAnswer", "", code, "nil",
                                   EmptyToken, <<PeerOp("SetRemoteAnswer", NoData, r.err)>>, FALSE))
               /\ peer' = Upd(peer, s, r.peer)
    /\ UNCHANGED <<isConnected, roomCode, slots, handlers, pending, wire, inbox,
                   notifs, writes, fired, calls>>
    /\ UNCHANGED <<probe, mu, threads, peerSlots, running>>
\* AcceptAnswer: the checks, then peer.SetRemoteAnswer.
AcceptAnswer(s, code) ==
    /\ Called(s, "AcceptAnswer")
    /\ LET pe == AcceptAnswerError(code)
           r == PeerSetRemoteAnswer(peer[s], Decode(code).sdp)
       IN IF pe # "nil"
          THEN /\ call' = Upd(call, s, Result(s, "AcceptAnswer", "", code, pe, EmptyToken, <<>>, FALSE))
               /\ UNCHANGED peer
          ELSE /\ call' = Upd(call, s, Result(s, "AcceptAnswer", "", code,
                                   IF r.err # "nil" THEN "failed to set remote answer" ELSE "nil",
                                   EmptyToken, <<PeerOp("SetRemoteAnswer", NoData, r.err)>>, FALSE))
               /\ peer' = Upd(peer, s, r.peer)
    /\ UNCHANGED <<isConnected, roomCode, slots, handlers, pending, wire, inbox,
                   notifs, writes, fired, calls>>
    /\ UNCHANGED <<probe, mu, threads, peerSlots, running>>

\* SendMessage's checks without the connection gate.
SendMessageErrorUngated(connected, text) ==
    IF text = "" THEN "message text cannot be empty" ELSE "nil"
\* SendMessage's checks with the text tested first.
SendMessageErrorTextFirst(connected, text) ==
    IF text = "" THEN "message text cannot be empty"
    ELSE IF ~connected THEN "not connected to any room"
    ELSE "nil"
\* The checks SendMessage makes before it builds the message, in order.
SendMessageError(connected, text) ==
    IF ~connected THEN "not connected to any room"
    ELSE IF text = "" THEN "message text cannot be empty"
    ELSE "nil"

\* SendMessage: the checks, NewMessage, Marshal, peer.Send.
SendMessage(s, text, ok) ==
    /\ Called(s, "SendMessage")
    /\ LET e == SendMessageError(isConnected[s], text)
           data == Marshal(NewMessage(TypeChat, Username(s), text))
           serr == PeerSend(peer[s], ok)
       IN IF e # "nil"
          THEN /\ call' = Upd(call, s, Result(s, "SendMessage", text, EmptyToken, e, EmptyToken, <<>>, FALSE))
               /\ UNCHANGED wire
          ELSE /\ call' = Upd(call, s, Result(s, "SendMessage", text, EmptyToken,
                                   IF serr # "nil" THEN "failed to send message" ELSE "nil",
                                   EmptyToken, <<PeerOp("Send", data, serr)>>, FALSE))
               /\ wire' = IF serr = "nil" THEN Upd(wire, s, Append(wire[s], data)) ELSE wire
    /\ UNCHANGED <<isConnected, roomCode, slots, handlers, pending, peer, inbox,
                   notifs, writes, fired, calls>>
    /\ UNCHANGED <<probe, mu, threads, peerSlots, running>>

\* The delayed notification whenever a callback is registered.
ShouldNotifyAlways(was, f) == f # Nil
\* Disconnect's test for the delayed notification.
ShouldNotify(was, f) == was /\ f # Nil

\* The leave message whatever the flag says.
ShouldSendLeaveAlways(connected) == TRUE
\* Disconnect's test for the leave message.
ShouldSendLeave(connected) == connected

\* Disconnect from the lock to peer.Close: wasConnected; if connected, send
\* the leave message (an error is logged) and clear the flag; clear the room
\* code. `ok`: the engine's answer to the send.
Disconnect(s, ok) ==
    /\ Enters(s, "Disconnect")
    /\ LET data == Marshal(NewMessage(TypeLeave, Username(s), ""))
           leave == ShouldSendLeave(isConnected[s])
           serr == PeerSend(peer[s], ok)
       IN /\ wire' = IF leave /\ serr = "nil" THEN Upd(wire, s, Append(wire[s], data)) ELSE wire
          /\ writes' = IF isConnected[s]
                       THEN Upd(writes, s, Append(writes[s],
                                [ev |-> "disconnected", f |-> slots[s]["onDisconnected"]]))
                       ELSE writes
          /\ Stays(s, "Disconnect", EmptyToken,
                   IF leave THEN <<PeerOp("Send", data, serr)>> ELSE <<>>)
    /\ isConnected' = Upd(isConnected, s, FALSE)
    /\ roomCode' = Upd(roomCode, s, EmptyToken)
    /\ UNCHANGED <<slots, handlers, pending, peer, inbox, notifs, fired, calls>>
    /\ UNCHANGED <<probe, mu, threads, peerSlots>>

\* Disconnect from peer.Close to the return: start the delayed notification
\* if the session was connected and a callback is registered; return Close's
\* error. `engineErr`: Close fails in the engine.
DisconnectCloses(s, engineErr) ==
    /\ running[s].op = "Disconnect"
    /\ Returns(s)
    /\ LET c == running[s]
           r == PeerClose(peer[s], engineErr)
           notify == ShouldNotify(c.pre.isConnected, slots[s]["onDisconnected"])
       IN /\ call' = Upd(call, s, ResultOf(c.pre, "Disconnect", "", EmptyToken, r.err, EmptyToken,
                                           c.ops \o <<PeerOp("Close", NoData, r.err)>>, notify))
          /\ peer' = Upd(peer, s, r.peer)
          /\ pending' = IF notify
                        THEN Upd(pending, s, Spawn(pending[s],
                                 Task("delayed", "disconnected", Nil, NoData)))
                        ELSE pending
    /\ running' = Upd(running, s, NoRun)
    /\ UNCHANGED <<isConnected, roomCode, slots, handlers, wire, inbox, lastLocked,
                   notifs, writes, fired, calls>>
    /\ UNCHANGED <<probe, mu, threads, peerSlots>>

\* The delayed notification runs: after the sleep it calls c.onDisconnected,
\* the field read at that moment without the lock. Calling a nil function
\* panics: the process of the session ends there (ev "panic").
DelayedDisconnected(s, t) ==
    /\ BagIn(t, pending[s])
    /\ t.kind = "delayed"
    /\ pending' = Upd(pending, s, Unspawn(pending[s], t))
    /\ calls' = Upd(calls, s, Append(calls[s],
                    [ev |-> IF slots[s]["onDisconnected"] = Nil THEN "panic" ELSE "disconnected",
                     f |-> slots[s]["onDisconnected"], arg |-> ZeroMessage]))
    /\ UNCHANGED <<isConnected, roomCode, slots, handlers, peer, wire, inbox, call,
                   lastLocked, notifs, writes, fired, budget>>
    /\ UNCHANGED <<probe, mu, threads, peerSlots, running>>

\* ------------------------------------------------------- specifications
\* One session, its notifications delivered one at a time.
NextSeq ==
    \/ \E f \in {Nil, 1} : Fresh("A") /\ OnConnected("A", f)
    \/ \E f \in {Nil, 1} : Fresh("A") /\ OnDisconnected("A", f)
    \/ \E state \in StateNames : NotifySeq("A", state)
    \/ \E h \in DOMAIN handlers["A"] : HandlerLocked("A", h)
    \/ \E h \in DOMAIN handlers["A"] : HandlerCheck1("A", h)
    \/ \E h \in DOMAIN handlers["A"] : HandlerCheck2("A", h)

SpecSeq == Init /\ [][NextSeq]_vars

\* One session under concurrent callers and a transport that reports any state
\* at any time; the remote side is the environment. The codes a caller
\* pastes into JoinRoom (type "offer") or AcceptAnswer (type "answer"):
\* nothing, junk, the other side's token, and a token whose descriptor is
\* well formed and whose SDP body the engine refuses.
Tokens(type) == {EmptyToken, JunkToken, Encode(Descriptor(type, "B")).tok, BadSdpToken(type)}

Next ==
    \/ \E f \in {Nil, 1} : Fresh("A") /\ OnDisconnected("A", f)
    \/ CreateRoom("A")
    \/ \E code \in Tokens("offer") : JoinRoom("A", code)
    \/ \E ok \in BOOLEAN : Gathered("A", ok, LocalDescription(peer["A"], "A"))
    \/ \E code \in Tokens("answer") : AcceptAnswer("A", code)
    \/ \E text \in Texts, ok \in BOOLEAN : SendMessage("A", text, ok)
    \/ \E ok \in BOOLEAN : Disconnect("A", ok)
    \/ \E e \in BOOLEAN : DisconnectCloses("A", e)
    \/ ChannelOpens("A")
    \/ \E state \in {"connecting", "connected", "closed"} : Notify("A", state)
    \/ \E h \in DOMAIN handlers["A"] : HandlerLocked("A", h)
    \/ \E h \in DOMAIN handlers["A"] : HandlerCheck1("A", h)
    \/ \E h \in DOMAIN handlers["A"] : HandlerCheck2("A", h)

Spec == Init /\ [][Next]_vars

\* One session, its notifications delivered concurrently: the engine starts a
\* goroutine per state change.
NextConc ==
    \/ \E f \in {Nil, 1} : Fresh("A") /\ OnConnected("A", f)
    \/ \E f \in {Nil, 1} : Fresh("A") /\ OnDisconnected("A", f)
    \/ \E state \in StateNames : NotifyConc("A", state)
    \/ \E h \in DOMAIN handlers["A"] : HandlerLocked("A", h)
    \/ \E h \in DOMAIN handlers["A"] : HandlerCheck1("A", h)
    \/ \E h \in DOMAIN handlers["A"] : HandlerCheck2("A", h)

SpecConc == Init /\ [][NextConc]_vars

\* One session given the notifications of the example, one at a time, with
\* the goroutines its handler starts.
Example == <<"connecting", "connected", "connected", "connected", "disconnected">>

NextExample ==
    \/ \E f \in {Nil, 1} : Fresh("A") /\ OnConnected("A", f)
    \/ \E f \in {Nil, 1} : Fresh("A") /\ OnDisconnected("A", f)
    \/ /\ Len(handlers["A"]) < Len(Example)
       /\ NotifySeq("A", Example[Len(handlers["A"]) + 1])
    \/ \E h \in DOMAIN handlers["A"] : HandlerLocked("A", h)
    \/ \E h \in DOMAIN handlers["A"] : HandlerCheck1("A", h)
    \/ \E h \in DOMAIN handlers["A"] : HandlerCheck2("A", h)
    \/ \E t \in Tasks("A") : RunCallback("A", t)
    \/ \E t \in Tasks("A"), ok \in BOOLEAN : JoinSend("A", t, ok)

SpecExample == Init /\ [][NextExample]_vars

\* The handshake, end to end: both sessions register their callbacks, A
\* creates the room, B joins with A's token, A accepts B's token; the engine
\* then reports connecting and connected to each side, one at a time, and
\* opens the channel; once A's caller saw its connected callback run, A
\* sends. The transport delivers what is sent: a Send on an open channel
\* succeeds.
HSReports == <<"connecting", "connected">>
Registered(s) == slots[s]["onConnected"] # Nil /\ slots[s]["onMessage"] # Nil
Succeeded(s, op) == call[s].op = op /\ call[s].err = "nil"

HSRegister(s) ==
    /\ Fresh(s)
    /\ \/ slots[s]["onConnected"] = Nil /\ OnConnected(s, 1)
       \/ slots[s]["onConnected"] # Nil /\ slots[s]["onMessage"] = Nil /\ OnMessage(s, 2)

HSCall ==
    \/ Registered("A") /\ Fresh("A") /\ CreateRoom("A")
    \/ /\ Registered("B") /\ Fresh("B") /\ Succeeded("A", "CreateRoom")
       /\ JoinRoom("B", call["A"].val)
    \/ \E s \in Sessions : Gathered(s, TRUE, LocalDescription(peer[s], s))
    \/ /\ Succeeded("A", "CreateRoom") /\ Succeeded("B", "JoinRoom")
       /\ AcceptAnswer("A", call["B"].val)
    \/ /\ call["A"].op \in {"AcceptAnswer", "SendMessage"}
       /\ \E i \in DOMAIN calls["A"] : calls["A"][i].ev = "connected"
       /\ SendMessage("A", "hi", TRUE)

\* The engine reports its states once both descriptions are applied.
HSNotify(s) ==
    /\ peer[s].neg
    /\ Len(handlers[s]) < Len(HSReports)
    /\ NotifySeq(s, HSReports[Len(handlers[s]) + 1])

HSSystem ==
    \/ \E s \in Sessions : HSNotify(s)
    \/ \E s \in Sessions : ChannelOpens(s)
    \/ \E s \in Sessions : \E h \in DOMAIN handlers[s] : HandlerLocked(s, h)
    \/ \E s \in Sessions : \E h \in DOMAIN handlers[s] : HandlerCheck1(s, h)
    \/ \E s \in Sessions : \E h \in DOMAIN handlers[s] : HandlerCheck2(s, h)
    \/ \E s \in Sessions : \E t \in Tasks(s) : RunCallback(s, t)
    \/ \E s \in Sessions : \E t \in Tasks(s) : JoinSend(s, t, TRUE)
    \/ \E s \in Sessions : Receive(s)
    \/ \E s \in Sessions : \E t \in Tasks(s) : ReceiveDispatch(s, t)

NextHS ==
    \/ \E s \in Sessions : HSRegister(s)
    \/ HSCall
    \/ HSSystem

\* The engine, the handlers and the goroutines keep running: a step of theirs
\* that stays possible is taken.
SpecHS == InitWith(MaxHSOps) /\ [][NextHS]_vars /\ WF_vars(HSSystem)

\* The session's variables, for the steps that apply a pure function.
session == <<isConnected, roomCode, slots, handlers, pending, peer, wire, inbox,
             call, lastLocked, notifs, writes, fired, calls, budget, mu, threads, peerSlots,
             running>>

\* The codec applied to texts and tokens a caller can hand it. Texts: lengths
\* at both ends of the accepted range; ASCII, JSON punctuation, CRLF, tab,
\* non-ASCII and no-break space, a control character, DEL. A text has the
\* runes its bytes can spell (utf8.RuneLen of each), a short one the deflate
\* stream gzip writes for it (a block of its literals and the empty stored
\* block: its length plus 6), a long one a stream of a few KiB; deflate streams
\* of every length modulo 3.
CodecLens == {1, 2, 3, MaxSDPSize - 1, MaxSDPSize, MaxSDPSize + 1}
CodecRunes == {{97}, Ascii, {97, 13, 10}, {9, 97}, {233, 20013, 128512}, {160},
               {7, 97}, {127}}
RuneLen(c) == IF c < 128 THEN 1 ELSE IF c < 2048 THEN 2 ELSE IF c < 65536 THEN 3 ELSE 4
RECURSIVE RunesLen(_)
RunesLen(r) == IF r = {} THEN 0 ELSE LET c == CHOOSE c \in r : TRUE IN RuneLen(c) + RunesLen(r \ {c})
Spells(l, r) ==
    LET w == {RuneLen(c) : c \in r}
        rest == l - RunesLen(r)
    IN /\ rest >= 0
       /\ \/ 1 \in w
          \/ w = {2} /\ rest % 2 = 0
          \/ w = {2, 3, 4} /\ rest # 1
DeflateLens(l) == IF l <= 3 THEN {l + 6} ELSE {4096, 4097, 4098}
CodecTexts ==
    {EmptyText} \cup {x \in {Text("text", "", l, r, z) : l \in CodecLens, r \in CodecRunes, z \in 7..9 \cup 4096..4098} :
                        Spells(x.len, x.runes) /\ x.z \in DeflateLens(x.len)}
\* Tokens: hand-written ones of every short length, in and out of the
\* alphabet; streams cut short; streams that hold a text Encode refuses or
\* Decode refuses.
CodecTokens ==
    {Token(l, a, FALSE, EmptyText) : l \in 0..14, a \in BOOLEAN}
    \cup {Token(B64Chars(GzipLen(x) - 1), TRUE, TRUE, x) : x \in CodecTexts}
    \cup {Token(B64Chars(GzipLen(x)), TRUE, TRUE, x) : x \in CodecTexts}

ApplyEncode(x) ==
    /\ probe' = [fn |-> "Encode", text |-> x, tok |-> Encode(x).tok,
                 err |-> Encode(x).err, out |-> EmptyText]
    /\ UNCHANGED session

ApplyDecode(t) ==
    /\ probe' = [fn |-> "Decode", text |-> EmptyText, tok |-> t,
                 err |-> Decode(t).err, out |-> Decode(t).sdp]
    /\ UNCHANGED session

\* Decode applied to the token Encode just returned.
DecodeEncoded ==
    /\ probe.fn = "Encode"
    /\ probe.err = "nil"
    /\ probe' = [fn |-> "Roundtrip", text |-> probe.text, tok |-> probe.tok,
                 err |-> Decode(probe.tok).err, out |-> Decode(probe.tok).sdp]
    /\ UNCHANGED session

NextCodec ==
    \/ \E x \in CodecTexts : ApplyEncode(x)
    \/ \E t \in CodecTokens : ApplyDecode(t)
    \/ DecodeEncoded

SpecCodec == Init /\ [][NextCodec]_vars

\* The wire protocol applied to messages a caller can build and to bytes a
\* peer can send: a JSON object with any of the four fields, or no JSON.
WireMessages ==
    {[type |-> ty, from |-> fr, text |-> tx, timestamp |-> ts] :
        ty \in {TypeChat, TypeJoin, TypeLeave}, fr \in {"alice", "wide", "raw"},
        tx \in {"", "hi", "max", "wide", "raw", "fffd"}, ts \in {0, 1}}
WireFields ==
    {[type |-> ty, from |-> fr, text |-> tx, timestamp |-> ts] :
        ty \in {"", TypeChat, TypeJoin, TypeLeave, "invalid"}, fr \in {"", "alice"},
        tx \in {"", "max", "long", "wide"}, ts \in {-1, 0, 1}}
WireBytes ==
    {[json |-> j, nl |-> nl, fields |-> [k \in D |-> f[k]]] :
        j \in BOOLEAN, nl \in BOOLEAN, D \in SUBSET Fields, f \in WireFields}

ApplyMarshal(m) ==
    /\ probe' = [fn |-> "Marshal", msg |-> m, data |-> Marshal(m),
                 err |-> "nil", out |-> ZeroMessage]
    /\ UNCHANGED session

ApplyUnmarshal(data) ==
    /\ probe' = [fn |-> "Unmarshal", msg |-> ZeroMessage, data |-> data,
                 err |-> Unmarshal(data).err, out |-> Unmarshal(data).msg]
    /\ UNCHANGED session

\* Unmarshal applied to the bytes Marshal just returned.
UnmarshalMarshalled ==
    /\ probe.fn = "Marshal"
    /\ probe' = [fn |-> "WireRoundtrip", msg |-> probe.msg, data |-> probe.data,
                 err |-> Unmarshal(probe.data).err, out |-> Unmarshal(probe.data).msg]
    /\ UNCHANGED session

NextWire ==
    \/ \E m \in WireMessages : ApplyMarshal(m)
    \/ \E data \in WireBytes : ApplyUnmarshal(data)
    \/ UnmarshalMarshalled

SpecWire == Init /\ [][NextWire]_vars

\* The inbound path: the caller registers a message and an error callback or
\* leaves them out, and joins a room; the engine reports its states and opens
\* the channel; the other end of the channel writes records, valid messages
\* and bytes no conforming peer sends; the session's handler takes them in
\* the order written and the goroutines it starts run in any order.
MaxInbound == 3
InboundBytes ==
    {Marshal(NewMessage(TypeChat, "B", "hi")), Marshal(NewMessage(TypeLeave, "B", "")),
     Marshal(NewMessage(TypeJoin, "B", "")), NoData}

\* The remote end sends bytes on its data channel.
RemoteSends(s, data) ==
    /\ Len(wire[s]) < MaxInbound
    /\ wire' = Upd(wire, s, Append(wire[s], data))
    /\ UNCHANGED <<isConnected, roomCode, slots, handlers, pending, peer, inbox, call,
                   lastLocked, notifs, writes, fired, calls, budget>>
    /\ UNCHANGED <<probe, mu, threads, peerSlots, running>>

InboundRegister(s) ==
    /\ Fresh(s)
    /\ \/ slots[s]["onMessage"] = Nil /\ OnMessage(s, 1)
       \/ slots[s]["onError"] = Nil /\ OnError(s, 2)

NextInbound ==
    \/ InboundRegister("A")
    \/ Fresh("A") /\ JoinRoom("A", OfferToken("B"))
    \/ Gathered("A", TRUE, LocalDescription(peer["A"], "A"))
    \/ HSNotify("A")
    \/ ChannelOpens("A")
    \/ \E h \in DOMAIN handlers["A"] : HandlerLocked("A", h)
    \/ \E h \in DOMAIN handlers["A"] : HandlerCheck1("A", h)
    \/ \E h \in DOMAIN handlers["A"] : HandlerCheck2("A", h)
    \/ \E data \in InboundBytes : RemoteSends("B", data)
    \/ Receive("A")
    \/ \E t \in Tasks("A") : ReceiveDispatch("A", t)
    \/ \E t \in Tasks("A") : RunCallback("A", t)
    \/ \E t \in Tasks("A") : \E ok \in BOOLEAN : JoinSend("A", t, ok)

SpecInbound == InitWith(1) /\ [][NextInbound]_vars

\* The Transport Peer on its own: a caller drives one RealPeer through its
\* interface in any order while the engine opens the channel when it can.
MaxPeerSends == 2

PeerCall(r) ==
    /\ peer' = Upd(peer, "A", r.peer)
    /\ probe' = [fn |-> "Peer", peer |-> peer["A"], err |-> r.err, handed |-> FALSE]
    /\ UNCHANGED <<isConnected, roomCode, slots, handlers, pending, wire, inbox, call,
                   lastLocked, notifs, writes, fired, calls, budget, mu, threads, peerSlots,
                   running>>

\* RealPeer.Send: the bytes reach the engine (dataChannel.Send) unless the
\* channel test fails; what the engine accepts goes onto the wire.
\* `ok`: the engine's answer on an open channel.
Send(data, ok) ==
    /\ Len(wire["A"]) < MaxPeerSends
    /\ probe' = [fn |-> "Send", peer |-> peer["A"], err |-> PeerSend(peer["A"], ok),
                 handed |-> PeerSend(peer["A"], ok) # "data channel not open"]
    /\ wire' = IF PeerSend(peer["A"], ok) = "nil"
               THEN Upd(wire, "A", Append(wire["A"], data)) ELSE wire
    /\ UNCHANGED <<isConnected, roomCode, slots, handlers, pending, peer, inbox, call,
                   lastLocked, notifs, writes, fired, calls, budget, mu, threads, peerSlots,
                   running>>

NextPeer ==
    \/ PeerCall(PeerCreateOffer(peer["A"]))
    \/ PeerCall(PeerCreateDataChannel(peer["A"]))
    \/ \E x \in {Descriptor("offer", "B"), BadSdp("offer")} :
            PeerCall(PeerCreateAnswer(peer["A"], x))
    \/ \E x \in {Descriptor("offer", "B"), BadSdp("offer")} :
            PeerCall(PeerSetRemoteOffer(peer["A"], x))
    \/ \E x \in {Descriptor("answer", "B"), BadSdp("answer")} :
            PeerCall(PeerSetRemoteAnswer(peer["A"], x))
    \/ \E e \in BOOLEAN : PeerCall(PeerClose(peer["A"], e))
    \/ ChannelOpens("A")
    \/ \E ok \in BOOLEAN : Send(Marshal(NewMessage(TypeChat, "alice", "hi")), ok)

SpecPeer == Init /\ [][NextPeer]_vars

\* ------------------------------------------------ statement by statement
\* The session followed goroutine by goroutine, with ChatClient.mu taken and
\* released where the code takes and releases it. threads[t] is a goroutine:
\* the method or handler it runs (op), where it stands (pc), its arguments and
\* locals. The caller's calls, the engine's two handlers and every goroutine
\* started with `go` are threads.
MaxLockCalls == 2     \* calls and engine events that meet (SpecGather, SpecSlots)
MaxOfferCalls == 3    \* calls of the peer's own methods that meet (SpecOffer)
MaxLockNotif == 1     \* engine events whose callbacks call back (SpecReentry)

NoSlots == [k \in SlotNames |-> Nil]
Thread(op, pc) ==
    [op |-> op, pc |-> pc, state |-> "new", code |-> EmptyToken, text |-> "", val |-> Nil,
     data |-> NoData, was |-> FALSE, cc |-> Nil, dc |-> Nil, f |-> Nil, ev |-> "none",
     begin |-> NoSlots, cb |-> FALSE, by |-> "caller", gathered |-> FALSE,
     ret |-> EmptyToken, sdp |-> EmptyText, err |-> "nil"]

Readers == {"SendMessage", "IsConnected", "GetRoomCode", "receive"}
Setters == {"OnMessage", "OnConnected", "OnDisconnected", "OnError"}
SlotOf(op) ==
    CASE op = "OnMessage" -> "onMessage" [] op = "OnConnected" -> "onConnected"
      [] op = "OnDisconnected" -> "onDisconnected" [] OTHER -> "onError"
\* RLock for the methods that only read, Lock for the others.
LockMode(op) == IF op \in Readers THEN "R" ELSE "W"

\* A lock that excludes nobody.
CanLockAlways(l, mode) == TRUE
\* sync.RWMutex: Lock waits for the writer and the readers, RLock for the writer.
CanLock(l, mode) == IF mode = "W" THEN l.w = 0 /\ l.r = {} ELSE l.w = 0
Locked(l, t, mode) == IF mode = "W" THEN [l EXCEPT !.w = t] ELSE [l EXCEPT !.r = @ \cup {t}]
Released(l, t) == [w |-> IF l.w = t THEN 0 ELSE l.w, r |-> l.r \ {t}]
Holds(l, t) == l.w = t \/ t \in l.r

\* `f()` in place of `go f()`: the goroutine `t` runs the function itself.
GoInline(ths, t, task) == [ths EXCEPT ![t] = [task EXCEPT !.by = ths[t].by]]
\* `go f()`: the function runs on a goroutine of its own; the goroutine `t`
\* that started it goes on.
Go(ths, t, task) == Append(ths, task)

Started(by) == Cardinality({t \in DOMAIN threads : threads[t].by = by})
\* The goroutines that entered from outside: the caller's and the engine's.
Entered == Started("caller") + Started("engine") + Started("channel")
At(t, ops, pc) == t \in DOMAIN threads /\ threads[t].op \in ops /\ threads[t].pc = pc

LockFrame ==
    UNCHANGED <<handlers, pending, inbox, call, lastLocked, notifs, writes, fired,
                calls, budget, probe, peerSlots, running>>

\* The caller calls a method of the session: its first statement is the lock.
LockCall(op, code, text, val) ==
    /\ threads' = Append(threads,
            [Thread(op, "lock") EXCEPT !.code = code, !.text = text, !.val = val])
    /\ UNCHANGED <<isConnected, roomCode, slots, peer, wire, mu>>
    /\ LockFrame

\* The engine calls the OnStateChange handler on a goroutine of its own.
LockNotify(state) ==
    /\ threads' = Append(threads,
            [Thread("handler", "lock") EXCEPT !.state = state, !.by = "engine"])
    /\ UNCHANGED <<isConnected, roomCode, slots, peer, wire, mu>>
    /\ LockFrame

\* The engine hands a record to the OnMessage handler: Unmarshal, then the
\* read lock for the snapshot of the callback.
LockReceive(data) ==
    /\ ChannelOpen(peer["A"])
    /\ threads' = Append(threads,
            [Thread("receive", "lock") EXCEPT !.data = data, !.by = "channel"])
    /\ UNCHANGED <<isConnected, roomCode, slots, peer, wire, mu>>
    /\ LockFrame

\* c.mu.Lock() / c.mu.RLock() returns.
Acquire(t) ==
    /\ t \in DOMAIN threads
    /\ threads[t].pc = "lock"
    /\ CanLock(mu.client, LockMode(threads[t].op))
    /\ mu' = [mu EXCEPT !.client = Locked(@, t, LockMode(threads[t].op))]
    /\ threads' = [threads EXCEPT ![t].pc = "body", ![t].begin = slots["A"]]
    /\ UNCHANGED <<isConnected, roomCode, slots, peer, wire>>
    /\ LockFrame

\* c.mu.Unlock() / c.mu.RUnlock(): deferred to the return in the methods,
\* before the tests and the dispatch in the two handlers.
AfterUnlock(op) ==
    CASE op = "handler" -> "check1" [] op = "receive" -> "dispatch" [] OTHER -> "done"
Release(t) ==
    /\ t \in DOMAIN threads
    /\ threads[t].pc = "unlock"
    /\ mu' = [mu EXCEPT !.client = Released(@, t)]
    /\ threads' = [threads EXCEPT ![t].pc = AfterUnlock(threads[t].op)]
    /\ UNCHANGED <<isConnected, roomCode, slots, peer, wire>>
    /\ LockFrame

\* Where CreateOffer and CreateAnswer stand once SetLocalDescription returned:
\* at `<-gatherComplete`.
AfterSetLocalNoWait == "gathered"
AfterSetLocal == "gather"

\* CreateRoom and JoinRoom from the lock to the wait inside the peer.
BodyOffer(t) ==
    /\ At(t, {"CreateRoom", "JoinRoom"}, "body")
    /\ LET th == threads[t]
           pe == IF th.op = "CreateRoom"
                 THEN (IF isConnected["A"] THEN "already connected to a room" ELSE "nil")
                 ELSE JoinRoomError(isConnected["A"], th.code)
           r == IF th.op = "CreateRoom" THEN PeerCreateOffer(peer["A"])
                ELSE PeerCreateAnswer(peer["A"], Decode(th.code).sdp)
       IN IF pe # "nil"
          THEN /\ threads' = [threads EXCEPT ![t].pc = "unlock", ![t].err = pe]
               /\ UNCHANGED peer
          ELSE /\ peer' = Upd(peer, "A", r.peer)
               /\ threads' = IF r.err # "nil"
                             THEN [threads EXCEPT ![t].pc = "unlock",
                                                  ![t].err = PeerFailure(th.op)]
                             ELSE [threads EXCEPT ![t].pc = AfterSetLocal]
    /\ UNCHANGED <<isConnected, roomCode, slots, wire, mu>>
    /\ LockFrame

\* The engine signals that candidate gathering is complete.
GatherComplete(t) ==
    /\ t \in DOMAIN threads
    /\ threads[t].pc = "gather"
    /\ threads' = [threads EXCEPT ![t].pc = "gathered", ![t].gathered = TRUE]
    /\ UNCHANGED <<isConnected, roomCode, slots, peer, wire, mu>>
    /\ LockFrame

\* CreateRoom and JoinRoom after the peer returned: the local description is
\* read and rendered (`ok`: without an error) as the text `x`, the text is
\* encoded, the room code stored.
FinishOffer(t, ok, x) ==
    /\ At(t, {"CreateRoom", "JoinRoom"}, "gathered")
    /\ LET th == threads[t]
           e == Encode(x)
       IN IF ~ok
          THEN /\ threads' = [threads EXCEPT ![t].pc = "unlock", ![t].err = PeerFailure(th.op)]
               /\ UNCHANGED roomCode
          ELSE IF e.err # "nil"
          THEN /\ threads' = [threads EXCEPT ![t].pc = "unlock", ![t].err = EncodeFailure(th.op)]
               /\ UNCHANGED roomCode
          ELSE /\ threads' = [threads EXCEPT ![t].pc = "unlock", ![t].ret = e.tok]
               /\ roomCode' = Upd(roomCode, "A", IF th.op = "CreateRoom" THEN e.tok ELSE th.code)
    /\ UNCHANGED <<isConnected, slots, peer, wire, mu>>
    /\ LockFrame

\* IsConnected, GetRoomCode: the field is read.
BodyRead(t) ==
    /\ At(t, {"IsConnected", "GetRoomCode"}, "body")
    /\ threads' = [threads EXCEPT ![t].pc = "unlock"]
    /\ UNCHANGED <<isConnected, roomCode, slots, peer, wire, mu>>
    /\ LockFrame

\* OnMessage, OnConnected, OnDisconnected, OnError: the field is assigned.
BodySet(t) ==
    /\ At(t, Setters, "body")
    /\ slots' = Upd(slots, "A", [slots["A"] EXCEPT ![SlotOf(threads[t].op)] = threads[t].val])
    /\ threads' = [threads EXCEPT ![t].pc = "unlock"]
    /\ UNCHANGED <<isConnected, roomCode, peer, wire, mu>>
    /\ LockFrame

\* SendMessage between RLock and RUnlock.
BodySend(t, ok) ==
    /\ At(t, {"SendMessage"}, "body")
    /\ LET e == SendMessageError(isConnected["A"], threads[t].text)
           serr == PeerSend(peer["A"], ok)
           data == Marshal(NewMessage(TypeChat, Username("A"), threads[t].text))
       IN /\ wire' = IF e = "nil" /\ serr = "nil" THEN Upd(wire, "A", Append(wire["A"], data))
                     ELSE wire
          /\ threads' = [threads EXCEPT ![t].pc = "unlock",
                             ![t].err = IF e # "nil" THEN e
                                        ELSE IF serr # "nil" THEN "failed to send message"
                                        ELSE "nil"]
    /\ UNCHANGED <<isConnected, roomCode, slots, peer, mu>>
    /\ LockFrame

\* Disconnect from the Lock to peer.Close: wasConnected, the leave message,
\* the flag, the room code. The goroutines that take no lock, the delayed
\* join send among them, run between this and the Close.
BodyDisconnect(t, ok) ==
    /\ At(t, {"Disconnect"}, "body")
    /\ LET data == Marshal(NewMessage(TypeLeave, Username("A"), ""))
           sent == ShouldSendLeave(isConnected["A"]) /\ PeerSend(peer["A"], ok) = "nil"
       IN wire' = IF sent THEN Upd(wire, "A", Append(wire["A"], data)) ELSE wire
    /\ threads' = [threads EXCEPT ![t].pc = "close", ![t].was = isConnected["A"]]
    /\ isConnected' = Upd(isConnected, "A", FALSE)
    /\ roomCode' = Upd(roomCode, "A", EmptyToken)
    /\ UNCHANGED <<slots, peer, mu>>
    /\ LockFrame

\* Disconnect from peer.Close to the return: the delayed notification is
\* started with `go` before the lock is released.
BodyClose(t, engineErr) ==
    /\ At(t, {"Disconnect"}, "close")
    /\ LET r == PeerClose(peer["A"], engineErr)
           me == [threads EXCEPT ![t].pc = "unlock", ![t].err = r.err]
       IN /\ peer' = Upd(peer, "A", r.peer)
          /\ threads' = IF ShouldNotify(threads[t].was, slots["A"]["onDisconnected"])
                        THEN Go(me, t, [Thread("delayed", "sleep") EXCEPT
                                            !.by = "go", !.ev = "disconnected"])
                        ELSE me
    /\ UNCHANGED <<isConnected, roomCode, slots, wire, mu>>
    /\ LockFrame

\* The OnStateChange handler between Lock and Unlock.
BodyHandler(t) ==
    /\ At(t, {"handler"}, "body")
    /\ isConnected' = Upd(isConnected, "A", MapState(threads[t].state, isConnected["A"]))
    /\ threads' = [threads EXCEPT ![t].pc = "unlock", ![t].was = isConnected["A"],
                                  ![t].cc = slots["A"]["onConnected"],
                                  ![t].dc = slots["A"]["onDisconnected"]]
    /\ UNCHANGED <<roomCode, slots, peer, wire, mu>>
    /\ LockFrame

\* The OnMessage handler between RLock and RUnlock: the snapshot of the
\* callback for what Unmarshal returned.
BodyReceive(t) ==
    /\ At(t, {"receive"}, "body")
    /\ LET task == InboundTask(slots["A"], Unmarshal(threads[t].data))
       IN threads' = [threads EXCEPT ![t].pc = "unlock", ![t].f = task.f, ![t].ev = task.ev]
    /\ UNCHANGED <<isConnected, roomCode, slots, peer, wire, mu>>
    /\ LockFrame

Callback(ev, f, begin) ==
    [Thread("callback", "run") EXCEPT !.by = "go", !.ev = ev, !.f = f, !.begin = begin, !.cb = TRUE]

\* The handler's first test, after the unlock.
Check1(t) ==
    /\ At(t, {"handler"}, "check1")
    /\ LET th == threads[t]
           me == [threads EXCEPT ![t].pc = "done"]
           join == [Thread("join", "sleep") EXCEPT !.by = "go",
                        !.data = Marshal(NewMessage(TypeJoin, Username("A"), ""))]
       IN threads' =
            IF JustConnected(isConnected["A"], th.was)
            THEN IF th.cc # Nil
                 THEN Go(Go(me, t, join), t, Callback("connected", th.cc, th.begin))
                 ELSE Go(me, t, join)
            ELSE [threads EXCEPT ![t].pc = "check2"]
    /\ UNCHANGED <<isConnected, roomCode, slots, peer, wire, mu>>
    /\ LockFrame

\* The handler's second test.
Check2(t) ==
    /\ At(t, {"handler"}, "check2")
    /\ LET th == threads[t]
           me == [threads EXCEPT ![t].pc = "done"]
       IN threads' =
            IF JustDisconnected(isConnected["A"], th.was) /\ th.dc # Nil
            THEN Go(me, t, Callback("disconnected", th.dc, th.begin))
            ELSE me
    /\ UNCHANGED <<isConnected, roomCode, slots, peer, wire, mu>>
    /\ LockFrame

\* The OnMessage handler after RUnlock: `go callback(msg)` if there is one.
Dispatch(t) ==
    /\ At(t, {"receive"}, "dispatch")
    /\ LET th == threads[t]
           me == [threads EXCEPT ![t].pc = "done"]
       IN threads' = IF th.f # Nil THEN Go(me, t, Callback(th.ev, th.f, th.begin)) ELSE me
    /\ UNCHANGED <<isConnected, roomCode, slots, peer, wire, mu>>
    /\ LockFrame

\* The delayed join send after its sleep: peer.Send, an error is logged.
WakeJoin(t, ok) ==
    /\ At(t, {"join"}, "sleep")
    /\ wire' = IF PeerSend(peer["A"], ok) = "nil"
               THEN Upd(wire, "A", Append(wire["A"], threads[t].data)) ELSE wire
    /\ threads' = [threads EXCEPT ![t].pc = "done"]
    /\ UNCHANGED <<isConnected, roomCode, slots, peer, mu>>
    /\ LockFrame

\* Disconnect's goroutine after its sleep: `c.onDisconnected()`, the field
\* read at that moment without the lock; calling a nil function panics.
WakeDelayed(t) ==
    /\ At(t, {"delayed"}, "sleep")
    /\ threads' = IF slots["A"]["onDisconnected"] = Nil
                  THEN [threads EXCEPT ![t].pc = "panic"]
                  ELSE [threads EXCEPT ![t].pc = "run", ![t].cb = TRUE,
                                       ![t].f = slots["A"]["onDisconnected"],
                                       ![t].begin = slots["A"]]
    /\ UNCHANGED <<isConnected, roomCode, slots, peer, wire, mu>>
    /\ LockFrame

\* A user callback runs: it returns, or it calls a method of the session and
\* returns when that call has returned.
Reentry == {"SendMessage", "Disconnect", "IsConnected", "GetRoomCode", "OnMessage"}
Run(t, op) ==
    /\ t \in DOMAIN threads
    /\ threads[t].pc = "run"
    /\ threads' = IF op = "return" THEN [threads EXCEPT ![t].pc = "done"]
                  ELSE [threads EXCEPT ![t].op = op, ![t].pc = "lock",
                                       ![t].text = "hi", ![t].val = 2]
    /\ UNCHANGED <<isConnected, roomCode, slots, peer, wire, mu>>
    /\ LockFrame

\* The steps of the session's own goroutines; the engine's answers to Send,
\* Close and the rendering of a description are taken as successes here.
LockStep ==
    \/ \E t \in DOMAIN threads : Acquire(t)
    \/ \E t \in DOMAIN threads : Release(t)
    \/ \E t \in DOMAIN threads : BodyRead(t)
    \/ \E t \in DOMAIN threads : BodySet(t)
    \/ \E t \in DOMAIN threads : BodySend(t, TRUE)
    \/ \E t \in DOMAIN threads : BodyDisconnect(t, TRUE)
    \/ \E t \in DOMAIN threads : BodyClose(t, FALSE)
    \/ \E t \in DOMAIN threads : BodyHandler(t)
    \/ \E t \in DOMAIN threads : Check1(t)
    \/ \E t \in DOMAIN threads : Check2(t)
    \/ \E t \in DOMAIN threads : WakeJoin(t, TRUE)

\* Calls made from several goroutines while the engine gathers candidates
\* and reports a state; no callback is registered.
GatherCalls == {"CreateRoom", "JoinRoom", "Disconnect", "SendMessage", "IsConnected",
                "GetRoomCode", "OnMessage"}
NextGather ==
    \/ Entered < MaxLockCalls /\ \E op \in GatherCalls : LockCall(op, OfferToken("B"), "hi", 1)
    \/ Entered < MaxLockCalls /\ \E state \in {"connected", "closed"} : LockNotify(state)
    \/ \E t \in DOMAIN threads : BodyOffer(t)
    \/ \E t \in DOMAIN threads : GatherComplete(t)
    \/ \E t \in DOMAIN threads, ok \in BOOLEAN :
            \E x \in Rendered(peer["A"], "A") : FinishOffer(t, ok, x)
    \/ LockStep

SpecGather == Init /\ [][NextGather]_vars

\* The peer's own methods called from several goroutines: CreateOffer and
\* CreateAnswer wait for the engine, Close takes no lock and waits for nothing.
PeerEnter(op) ==
    /\ threads' = Append(threads, Thread(op, "call"))
    /\ UNCHANGED <<isConnected, roomCode, slots, peer, wire, mu>>
    /\ LockFrame

\* CreateOffer / CreateAnswer hold no lock: each engine call is a step. The
\* first: CreateDataChannel, or SetRemoteOffer with the offer `x`.
PeerBegin(t, x) ==
    /\ At(t, {"PeerCreateOffer", "PeerCreateAnswer"}, "call")
    /\ LET r == IF threads[t].op = "PeerCreateOffer" THEN PeerCreateDataChannel(peer["A"])
                ELSE PeerSetRemoteOffer(peer["A"], x)
       IN /\ peer' = Upd(peer, "A", r.peer)
          /\ threads' = IF r.err # "nil"
                        THEN [threads EXCEPT ![t].pc = "done", ![t].err = r.err]
                        ELSE [threads EXCEPT ![t].pc = "create"]
    /\ UNCHANGED <<isConnected, roomCode, slots, wire, mu>>
    /\ LockFrame

\* The second: pc.CreateOffer / pc.CreateAnswer.
PeerCreate(t) ==
    /\ At(t, {"PeerCreateOffer", "PeerCreateAnswer"}, "create")
    /\ LET r == EngineCreate(peer["A"], LocalType(threads[t].op))
       IN threads' = IF r.err # "nil"
                     THEN [threads EXCEPT ![t].pc = "done", ![t].err = r.err]
                     ELSE [threads EXCEPT ![t].pc = "setlocal"]
    /\ UNCHANGED <<isConnected, roomCode, slots, peer, wire, mu>>
    /\ LockFrame

\* The third: pc.SetLocalDescription; then the wait at `<-gatherComplete`.
PeerSetLocal(t) ==
    /\ At(t, {"PeerCreateOffer", "PeerCreateAnswer"}, "setlocal")
    /\ LET r == EngineSetLocal(peer["A"], LocalType(threads[t].op))
       IN /\ peer' = Upd(peer, "A", r.peer)
          /\ threads' = IF r.err # "nil"
                        THEN [threads EXCEPT ![t].pc = "done", ![t].err = r.err]
                        ELSE [threads EXCEPT ![t].pc = AfterSetLocal]
    /\ UNCHANGED <<isConnected, roomCode, slots, wire, mu>>
    /\ LockFrame

\* `return p.sdpToString(p.pc.LocalDescription())`: the description the
\* connection has now, which another call may have set since this one set
\* its own (`ok`: rendered without an error).
PeerEnd(t, ok) ==
    /\ At(t, {"PeerCreateOffer", "PeerCreateAnswer"}, "gathered")
    /\ threads' = IF ~ok \/ peer["A"].local = "none"
                  THEN [threads EXCEPT ![t].pc = "done", ![t].err = "no descriptor"]
                  ELSE [threads EXCEPT ![t].pc = "done",
                            ![t].sdp = LocalDescription(peer["A"], "A")]
    /\ UNCHANGED <<isConnected, roomCode, slots, peer, wire, mu>>
    /\ LockFrame

\* RealPeer.Close on a goroutine of its own.
PeerCloses(t, engineErr) ==
    /\ At(t, {"PeerClose"}, "call")
    /\ LET r == PeerClose(peer["A"], engineErr)
       IN /\ peer' = Upd(peer, "A", r.peer)
          /\ threads' = [threads EXCEPT ![t].pc = "done", ![t].err = r.err]
    /\ UNCHANGED <<isConnected, roomCode, slots, wire, mu>>
    /\ LockFrame

NextOffer ==
    \/ Entered < MaxOfferCalls
            /\ \E op \in {"PeerCreateOffer", "PeerCreateAnswer", "PeerClose"} : PeerEnter(op)
    \/ \E t \in DOMAIN threads, x \in {Descriptor("offer", "B"), BadSdp("offer")} : PeerBegin(t, x)
    \/ \E t \in DOMAIN threads : PeerCreate(t)
    \/ \E t \in DOMAIN threads : PeerSetLocal(t)
    \/ \E t \in DOMAIN threads : GatherComplete(t)
    \/ \E t \in DOMAIN threads, ok \in BOOLEAN : PeerEnd(t, ok)
    \/ \E t \in DOMAIN threads : PeerCloses(t, FALSE)

SpecOffer == Init /\ [][NextOffer]_vars

\* RealPeer.mu and the two callbacks of the peer. The callbacks registered
\* first are the session's handlers; OnMessage and OnStateChange replace
\* them from any goroutine while the engine dispatches an event: it copies
\* the callback under the read lock and calls it, on its own goroutine,
\* after the unlock. The callback returns or registers a callback itself.
MaxPeerLock == 2

PeerSetters == {"PeerOnMessage", "PeerOnStateChange"}
PeerSlotOf(op) == IF op \in {"PeerOnMessage", "data"} THEN "onMessage" ELSE "onStateChange"
PeerFrame ==
    UNCHANGED <<isConnected, roomCode, slots, handlers, pending, peer, wire, inbox, call,
                lastLocked, notifs, writes, fired, calls, budget, probe, running>>

\* A goroutine calls OnMessage(f) or OnStateChange(f).
PeerRegister(op, f) ==
    /\ threads' = Append(threads, [Thread(op, "lock") EXCEPT !.val = f])
    /\ UNCHANGED <<mu, peerSlots>>
    /\ PeerFrame

\* The engine calls the connection's state handler ("state") or the data
\* channel's message handler ("data").
PeerEvent(ev) ==
    /\ threads' = Append(threads, [Thread(ev, "lock") EXCEPT !.ev = ev, !.by = "engine"])
    /\ UNCHANGED <<mu, peerSlots>>
    /\ PeerFrame

\* p.mu.Lock() / p.mu.RLock() returns.
PeerAcquire(t) ==
    /\ At(t, PeerSetters \cup {"state", "data"}, "lock")
    /\ LET mode == IF threads[t].op \in PeerSetters THEN "W" ELSE "R"
       IN /\ CanLock(mu.peer, mode)
          /\ mu' = [mu EXCEPT !.peer = Locked(@, t, mode)]
    /\ threads' = [threads EXCEPT ![t].pc = "body"]
    /\ UNCHANGED peerSlots
    /\ PeerFrame

\* `p.onMessage = callback` / `p.onStateChange = callback`.
PeerBodySet(t) ==
    /\ At(t, PeerSetters, "body")
    /\ peerSlots' = [peerSlots EXCEPT ![PeerSlotOf(threads[t].op)] = threads[t].val]
    /\ threads' = [threads EXCEPT ![t].pc = "unlock"]
    /\ UNCHANGED mu
    /\ PeerFrame

\* Where the dispatch stands once it has its copy of the callback.
AfterCopyInvoke == "invoke"
AfterCopy == "unlock"

\* `callback := peer.onStateChange` / `callback := p.onMessage`.
PeerBodyCopy(t) ==
    /\ At(t, {"state", "data"}, "body")
    /\ threads' = [threads EXCEPT ![t].pc = AfterCopy,
                                  ![t].f = peerSlots[PeerSlotOf(threads[t].op)]]
    /\ UNCHANGED <<mu, peerSlots>>
    /\ PeerFrame

\* p.mu.Unlock() / p.mu.RUnlock().
PeerRelease(t) ==
    /\ At(t, PeerSetters \cup {"state", "data"}, "unlock")
    /\ mu' = [mu EXCEPT !.peer = Released(@, t)]
    /\ threads' = [threads EXCEPT ![t].pc = IF threads[t].op \in PeerSetters THEN "done"
                                            ELSE "invoke"]
    /\ UNCHANGED peerSlots
    /\ PeerFrame

\* `if callback != nil { callback(...) }`
PeerInvoke(t) ==
    /\ At(t, {"state", "data"}, "invoke")
    /\ threads' = IF threads[t].f = Nil THEN [threads EXCEPT ![t].pc = "done"]
                  ELSE [threads EXCEPT ![t].pc = "run", ![t].cb = TRUE]
    /\ UNCHANGED <<mu, peerSlots>>
    /\ PeerFrame

\* The callback runs on the engine's goroutine: it returns, or it registers
\* a callback and returns when the setter has returned.
PeerRun(t, op, f) ==
    /\ t \in DOMAIN threads
    /\ threads[t].pc = "run"
    /\ threads' = IF op = "return" THEN [threads EXCEPT ![t].pc = "done"]
                  ELSE [threads EXCEPT ![t].op = op, ![t].pc = "lock", ![t].val = f]
    /\ UNCHANGED <<mu, peerSlots>>
    /\ PeerFrame

PeerStep ==
    \/ \E t \in DOMAIN threads : PeerAcquire(t)
    \/ \E t \in DOMAIN threads : PeerBodySet(t)
    \/ \E t \in DOMAIN threads : PeerBodyCopy(t)
    \/ \E t \in DOMAIN threads : PeerRelease(t)
    \/ \E t \in DOMAIN threads : PeerInvoke(t)
    \/ \E t \in DOMAIN threads, op \in PeerSetters \cup {"return"} : PeerRun(t, op, 3)

NextPeerLock ==
    \/ Entered < MaxPeerLock /\ \E op \in PeerSetters, f \in {Nil, 2} : PeerRegister(op, f)
    \/ Entered < MaxPeerLock /\ \E ev \in {"state", "data"} : PeerEvent(ev)
    \/ PeerStep

SpecPeerLock == Init /\ [][NextPeerLock]_vars

\* Callbacks that call back into the session. The caller registers its
\* callbacks and joins a room; then the engine opens the channel, reports
\* states and delivers a record, and every callback started runs on its
\* goroutine and calls a method of the session or returns.
CallbackStep ==
    \/ \E t \in DOMAIN threads : BodyReceive(t)
    \/ \E t \in DOMAIN threads : Dispatch(t)
    \/ \E t \in DOMAIN threads : WakeDelayed(t)
    \/ \E t \in DOMAIN threads, op \in Reentry \cup {"return"} : Run(t, op)

ReentryRegister ==
    /\ threads = <<>>
    /\ call["A"].op = "none"
    /\ \/ slots["A"]["onConnected"] = Nil /\ OnConnected("A", 1)
       \/ slots["A"]["onConnected"] # Nil /\ slots["A"]["onDisconnected"] = Nil
            /\ OnDisconnected("A", 1)
       \/ slots["A"]["onDisconnected"] # Nil /\ slots["A"]["onMessage"] = Nil
            /\ OnMessage("A", 1)
       \/ slots["A"]["onMessage"] # Nil /\ slots["A"]["onError"] = Nil /\ OnError("A", 1)

\* The caller is through with its registrations and the channel is open.
Ready == Free("A") /\ ChannelOpen(peer["A"]) /\ \A k \in SlotNames : slots["A"][k] # Nil

NextReentry ==
    \/ ReentryRegister
    \/ threads = <<>> /\ JoinRoom("A", OfferToken("B"))
    \/ threads = <<>> /\ Gathered("A", TRUE, LocalDescription(peer["A"], "A"))
    \/ threads = <<>> /\ ChannelOpens("A")
    \/ Ready /\ Entered < MaxLockNotif /\ \E state \in {"connected", "closed"} : LockNotify(state)
    \/ Ready /\ Entered < MaxLockNotif
            /\ \E data \in {Marshal(NewMessage(TypeChat, "B", "hi")), NoData} : LockReceive(data)
    \/ LockStep
    \/ CallbackStep

SpecReentry == InitWith(1) /\ [][NextReentry]_vars

\* Callbacks replaced while events are dispatched. The caller registers its
\* callbacks and joins a room; then it registers callbacks again, from any
\* goroutine, while the engine reports states and delivers records; the
\* callbacks started return.
NextSlots ==
    \/ ReentryRegister
    \/ threads = <<>> /\ JoinRoom("A", OfferToken("B"))
    \/ threads = <<>> /\ Gathered("A", TRUE, LocalDescription(peer["A"], "A"))
    \/ threads = <<>> /\ ChannelOpens("A")
    \/ Ready /\ Entered < MaxLockCalls
            /\ \E op \in Setters : LockCall(op, EmptyToken, "", 2)
    \/ Ready /\ Entered < MaxLockCalls
            /\ \E state \in {"connected", "closed"} : LockNotify(state)
    \/ Ready /\ Entered < MaxLockCalls
            /\ \E data \in {Marshal(NewMessage(TypeChat, "B", "hi")), NoData} : LockReceive(data)
    \/ \E t \in DOMAIN threads : Acquire(t)
    \/ \E t \in DOMAIN threads : Release(t)
    \/ \E t \in DOMAIN threads : BodySet(t)
    \/ \E t \in DOMAIN threads : BodyHandler(t)
    \/ \E t \in DOMAIN threads : Check1(t)
    \/ \E t \in DOMAIN threads : Check2(t)
    \/ \E t \in DOMAIN threads : WakeJoin(t, TRUE)
    \/ \E t \in DOMAIN threads : BodyReceive(t)
    \/ \E t \in DOMAIN threads : Dispatch(t)
    \/ \E t \in DOMAIN threads : Run(t, "return")

SpecSlots == InitWith(1) /\ [][NextSlots]_vars

\* A connected session in use. The caller registers its callbacks and joins
\* a room, the channel opens and the engine reports "connected": the handler
\* runs, the join message is sent and the connected callback returns. Then
\* the caller sends, disconnects and clears the disconnected callback from
\* goroutines of its own while the engine reports further states; the
\* callbacks started return.
MaxInUse == 3
InUse ==
    /\ Ready /\ isConnected["A"]
    /\ InFlight("A") = {} /\ pending["A"] = EmptyBag
Connects ==
    /\ threads = <<>>
    /\ \/ Ready /\ handlers["A"] = <<>> /\ Notify("A", "connected")
       \/ \E h \in DOMAIN handlers["A"] : HandlerLocked("A", h)
       \/ \E h \in DOMAIN handlers["A"] : HandlerCheck1("A", h)
       \/ \E t \in Tasks("A") : RunCallback("A", t)
       \/ \E t \in Tasks("A") : JoinSend("A", t, TRUE)
NextInUse ==
    \/ ReentryRegister
    \/ threads = <<>> /\ JoinRoom("A", OfferToken("B"))
    \/ threads = <<>> /\ Gathered("A", TRUE, LocalDescription(peer["A"], "A"))
    \/ threads = <<>> /\ ChannelOpens("A")
    \/ Connects
    \/ (InUse \/ threads # <<>>) /\ Entered < MaxInUse
            /\ \E op \in {"SendMessage", "Disconnect"} : LockCall(op, EmptyToken, "hi", Nil)
    \/ (InUse \/ threads # <<>>) /\ Entered < MaxInUse
            /\ LockCall("OnDisconnected", EmptyToken, "", Nil)
    \/ (InUse \/ threads # <<>>) /\ Entered < MaxInUse
            /\ \E state \in {"connecting", "connected", "closed"} : LockNotify(state)
    \/ \E t \in DOMAIN threads : Acquire(t)
    \/ \E t \in DOMAIN threads : Release(t)
    \/ \E t \in DOMAIN threads : BodySet(t)
    \/ \E t \in DOMAIN threads : BodySend(t, TRUE)
    \/ \E t \in DOMAIN threads : BodyDisconnect(t, TRUE)
    \/ \E t \in DOMAIN threads : BodyClose(t, FALSE)
    \/ \E t \in DOMAIN threads : BodyHandler(t)
    \/ \E t \in DOMAIN threads : Check1(t)
    \/ \E t \in DOMAIN threads : Check2(t)
    \/ \E t \in DOMAIN threads : WakeJoin(t, TRUE)
    \/ \E t \in DOMAIN threads : WakeDelayed(t)
    \/ \E t \in DOMAIN threads : Run(t, "return")

SpecInUse == InitWith(1) /\ [][NextInUse]_vars

\* One session at the level of its calls, beside the goroutines it started:
\* the caller registers a disconnected callback, or takes it away, at any
\* time, joins a room and disconnects; the engine opens the channel and
\* reports connected; the delayed join send and the delayed notification of
\* Disconnect run when they wake, with or without the lock taken by a call.
NextLeave ==
    \/ \E f \in {Nil, 1} : slots["A"]["onDisconnected"] # f /\ OnDisconnected("A", f)
    \/ Fresh("A") /\ JoinRoom("A", OfferToken("B"))
    \/ \E ok \in BOOLEAN, x \in Rendered(peer["A"], "A") : Gathered("A", ok, x)
    \/ ChannelOpens("A")
    \/ Notify("A", "connected")
    \/ \E h \in DOMAIN handlers["A"] : HandlerLocked("A", h)
    \/ \E h \in DOMAIN handlers["A"] : HandlerCheck1("A", h)
    \/ \E h \in DOMAIN handlers["A"] : HandlerCheck2("A", h)
    \/ \E t \in Tasks("A"), ok \in BOOLEAN : JoinSend("A", t, ok)
    \/ \E ok \in BOOLEAN : Disconnect("A", ok)
    \/ \E e \in BOOLEAN : DisconnectCloses("A", e)
    \/ \E t \in Tasks("A") : DelayedDisconnected("A", t)

SpecLeave == Init /\ [][NextLeave]_vars

\* ----------------------------------------------------------- properties
\* No handler invocation is between its lock and its return.
Quiescent(s) == InFlight(s) = {}
HasCallback(w) == w.f # Nil
Slot(s, ev) == IF ev = "connected" THEN slots[s]["onConnected"] ELSE slots[s]["onDisconnected"]

\* The changes of the flag a sequence of notifications makes, from `flag`.
RECURSIVE Edges(_, _)
Edges(seq, flag) ==
    IF seq = <<>> THEN <<>>
    ELSE LET new == MapState(Head(seq), flag)
         IN (IF new = flag THEN <<>>
             ELSE <<IF new THEN "connected" ELSE "disconnected">>) \o Edges(Tail(seq), new)
WithSlot(s, evs) == [i \in DOMAIN evs |-> [ev |-> evs[i], f |-> Slot(s, evs[i])]]
\* C1: with notifications delivered one at a time, the callbacks dispatched
\* are exactly the changes of the flag, in order, each with the callback
\* registered for it (none where none is registered): a notification that
\* repeats the current state dispatches nothing, and the sequence connecting,
\* connected, connected, connected, disconnected dispatches the connected
\* callback once and the disconnected callback once.
C1_EdgeTriggered ==
    Quiescent("A") =>
        /\ fired["A"] = SelectSeq(WithSlot("A", Edges(notifs["A"], FALSE)), HasCallback)
        /\ (/\ notifs["A"] = Example
            /\ slots["A"]["onConnected"] # Nil
            /\ slots["A"]["onDisconnected"] # Nil)
           => fired["A"] = <<[ev |-> "connected", f |-> slots["A"]["onConnected"]],
                             [ev |-> "disconnected", f |-> slots["A"]["onDisconnected"]]>>
C1_Witness ==
    /\ Quiescent("A")
    /\ notifs["A"] = Example
    /\ fired["A"] = <<[ev |-> "connected", f |-> 1], [ev |-> "disconnected", f |-> 1]>>

\* C2: with notifications delivered concurrently, once every handler has
\* returned the callbacks dispatched are exactly the changes the flag went
\* through under the lock, one dispatch per change: none lost, none doubled.
C2_ConcurrentEdges ==
    Quiescent("A") =>
        /\ fired["A"] = SelectSeq(writes["A"], HasCallback)
        /\ (slots["A"]["onConnected"] # Nil /\ slots["A"]["onDisconnected"] # Nil) =>
              \A i \in DOMAIN fired["A"] :
                  fired["A"][i].ev = IF i % 2 = 1 THEN "connected" ELSE "disconnected"

\* The caller saw callback `ev` run at session s.
Ran(s, ev) == \E i \in DOMAIN calls[s] : calls[s][i].ev = ev

\* C3: for the sequence connecting, connected, connected, connected,
\* disconnected the caller sees the connected callback run before the
\* disconnected callback.
C3_CallbackOrder ==
    \A i, j \in DOMAIN calls["A"] :
        (calls["A"][i].ev = "connected" /\ calls["A"][j].ev = "disconnected") => i < j

\* C6: after the handshake (A created the room, B joined with A's token, A
\* accepted B's token) both sessions' connected callbacks eventually run, and
\* a SendMessage("hi") of A that succeeded eventually has B's message
\* callback run with a chat message from A's user with the text "hi".
C6_Handshake ==
    /\ (Succeeded("B", "JoinRoom") /\ Succeeded("A", "AcceptAnswer"))
          ~> (Ran("A", "connected") /\ Ran("B", "connected"))
    /\ (Succeeded("A", "SendMessage") /\ call["A"].text = "hi")
          ~> (\E i \in DOMAIN calls["B"] :
                 /\ calls["B"][i].ev = "message"
                 /\ calls["B"][i].f = slots["B"]["onMessage"]
                 /\ calls["B"][i].arg = NewMessage(TypeChat, Username("A"), "hi"))
C6_Witness ==
    /\ Succeeded("A", "SendMessage")
    /\ Ran("A", "connected")
    /\ Ran("B", "connected")
    /\ \E i \in DOMAIN calls["B"] :
           /\ calls["B"][i].ev = "message"
           /\ calls["B"][i].arg.type = TypeChat
           /\ calls["B"][i].arg.from = "alice"
           /\ calls["B"][i].arg.text = "hi"

\* The expected bytes of a message of the session.
Bytes(s, type, text) ==
    [json |-> TRUE, nl |-> TRUE,
     fields |-> [type |-> type, from |-> Username(s), text |-> text, timestamp |-> Now]]

\* The call `op` of session A was the last to hold the session's lock and
\* has returned: call["A"] is its result and nothing was written under the
\* lock since.
JustBack(op) == Free("A") /\ lastLocked["A"] = op

\* C4: SendMessage on a session whose flag is false returns the not-connected
\* error and calls nothing on the peer; on a session whose flag is true, with
\* a non-empty text, it hands the peer exactly one chat message from the
\* session's user with that text, and succeeds if and only if that Send does.
C4_SendGated ==
    LET c == call["A"]
    IN c.op = "SendMessage" =>
        /\ ~c.pre.isConnected =>
              c.err = "not connected to any room" /\ c.peerOps = <<>>
        /\ (c.pre.isConnected /\ c.text # "") =>
              /\ Len(c.peerOps) = 1
              /\ c.peerOps[1].op = "Send"
              /\ c.peerOps[1].data = Bytes("A", TypeChat, c.text)
              /\ (c.peerOps[1].err = "nil") <=> (c.err = "nil")
              /\ (c.peerOps[1].err # "nil") <=> (c.err = "failed to send message")
              /\ (c.err = "nil" /\ JustBack("SendMessage")) =>
                    wire["A"] # <<>> /\ wire["A"][Len(wire["A"])] = Bytes("A", TypeChat, c.text)
C4_Witness ==
    /\ call["A"].op = "SendMessage"
    /\ call["A"].pre.isConnected
    /\ call["A"].err = "nil"
    /\ JustBack("SendMessage")
    /\ wire["A"] = <<Bytes("A", TypeChat, "hi")>>

\* C5: SendMessage with the empty text on a connected session returns the
\* empty-text error and sends nothing; on a session that is not connected it
\* returns the not-connected error whatever the text; and either error leaves
\* the flag, the room code and the callbacks as they were.
C5_SendRejects ==
    LET c == call["A"]
    IN c.op = "SendMessage" =>
        /\ (c.pre.isConnected /\ c.text = "") =>
              c.err = "message text cannot be empty" /\ c.peerOps = <<>>
        /\ ~c.pre.isConnected => c.err = "not connected to any room"
        /\ (/\ c.err \in {"message text cannot be empty", "not connected to any room"}
            /\ JustBack("SendMessage")) =>
              /\ isConnected["A"] = c.pre.isConnected
              /\ roomCode["A"] = c.pre.roomCode
              /\ slots["A"] = c.pre.slots
C5_Witness ==
    /\ call["A"].op = "SendMessage"
    /\ call["A"].pre.isConnected
    /\ call["A"].text = ""
    /\ call["A"].err = "message text cannot be empty"
    /\ JustBack("SendMessage")

\* The delayed notification of a Disconnect, started and not yet run.
DelayedTask == Task("delayed", "disconnected", Nil, NoData)

\* C7: a Disconnect that follows a Disconnect returns no error (the peer's
\* repeated Close reports none) and starts no notification: the notifications
\* started are those there were when it was entered, so the two calls
\* together start at most the one of the first.
C7_DisconnectTwice ==
    LET c == call["A"]
    IN (c.op = "Disconnect" /\ c.pre.last = "Disconnect") =>
        /\ c.err = "nil"
        /\ ~c.sched
        /\ c.peerOps = <<PeerOp("Close", NoData, "nil")>>
        /\ JustBack("Disconnect") =>
              CopiesIn(DelayedTask, pending["A"]) <= c.pre.delayed
C7_Witness ==
    /\ call["A"].op = "Disconnect"
    /\ call["A"].pre.last = "Disconnect"
    /\ call["A"].err = "nil"
    /\ call["A"].pre.delayed = 1
    /\ CopiesIn(DelayedTask, pending["A"]) = 1

\* C8: Disconnect leaves the flag false and the room code empty, closes the
\* peer exactly once and returns what that Close returned; it sends the
\* leave message first if and only if the flag was true, and whether that
\* send fails changes nothing in the result.
C8_DisconnectClears ==
    LET c == call["A"]
        n == Len(c.peerOps)
    IN c.op = "Disconnect" =>
        /\ n = IF c.pre.isConnected THEN 2 ELSE 1
        /\ c.peerOps[n].op = "Close"
        /\ c.err = c.peerOps[n].err
        /\ c.pre.isConnected =>
              c.peerOps[1].op = "Send" /\ c.peerOps[1].data = Bytes("A", TypeLeave, "")
        /\ JustBack("Disconnect") =>
              ~isConnected["A"] /\ roomCode["A"] = EmptyToken /\ peer["A"].closed
C8_Witness ==
    /\ call["A"].op = "Disconnect"
    /\ call["A"].pre.isConnected
    /\ call["A"].peerOps[1].err # "nil"
    /\ call["A"].err = "nil"
    /\ JustBack("Disconnect")

\* C9: Disconnect starts the delayed disconnected notification only if the
\* flag was true on entry, and always then when a callback is registered; a
\* session that never connected, room code set or not, gets none.
C9_DisconnectNotifies ==
    LET c == call["A"]
    IN c.op = "Disconnect" =>
        /\ c.sched => c.pre.isConnected
        /\ (c.pre.isConnected /\ c.pre.slots["onDisconnected"] # Nil) => c.sched
        /\ (~c.pre.isConnected /\ JustBack("Disconnect")) =>
              CopiesIn(DelayedTask, pending["A"]) = c.pre.delayed
C9_Witness ==
    /\ call["A"].op = "Disconnect"
    /\ call["A"].pre.isConnected
    /\ call["A"].sched
    /\ BagIn(DelayedTask, pending["A"])

\* C10: JoinRoom with the empty code on a session that is not connected
\* returns the empty-room-code error; JoinRoom and AcceptAnswer with a code
\* that is empty or does not decode return an error, call nothing on the
\* peer and leave the flag, the room code and the peer as they were.
C10_BadCodes ==
    LET c == call["A"]
    IN /\ (c.op = "JoinRoom" /\ c.code = EmptyToken /\ ~c.pre.isConnected) =>
              c.err = "room code cannot be empty"
       /\ (c.op \in {"JoinRoom", "AcceptAnswer"} /\ c.code \in BadTokens) =>
              /\ c.err # "nil"
              /\ c.peerOps = <<>>
              /\ c.val = EmptyToken
              /\ JustBack(c.op) =>
                    isConnected["A"] = c.pre.isConnected /\ roomCode["A"] = c.pre.roomCode
\* The retry: a JoinRoom that failed, and the next one, with a good code, succeeded.
C10_Witness ==
    /\ call["A"].op = "JoinRoom"
    /\ call["A"].pre.last = "JoinRoom"
    /\ call["A"].pre.roomCode = EmptyToken
    /\ call["A"].err = "nil"
    /\ roomCode["A"] = OfferToken("B")

\* C11: CreateRoom and JoinRoom entered with the flag true return the
\* already-connected error (JoinRoom also for the empty code), call nothing
\* on the peer and leave the flag, the room code and the callbacks as they
\* were.
C11_AlreadyConnected ==
    LET c == call["A"]
    IN (c.op \in {"CreateRoom", "JoinRoom"} /\ c.pre.isConnected) =>
        /\ c.err = "already connected to a room"
        /\ c.val = EmptyToken
        /\ c.peerOps = <<>>
        /\ JustBack(c.op) =>
              /\ isConnected["A"]
              /\ roomCode["A"] = c.pre.roomCode
              /\ slots["A"] = c.pre.slots
C11_Witness ==
    /\ call["A"].op = "JoinRoom"
    /\ call["A"].pre.isConnected
    /\ call["A"].code = EmptyToken
    /\ call["A"].err = "already connected to a room"

\* The peer was asked for an offer or an answer during the call.
Generated(c) ==
    \E i \in DOMAIN c.peerOps : c.peerOps[i].op \in {"CreateOffer", "CreateAnswer"}

\* C12: the handshake runs once: a CreateRoom or JoinRoom entered with a room
\* code already set (an earlier one succeeded) does not ask the peer for
\* another offer or answer, and an AcceptAnswer that follows a successful
\* AcceptAnswer applies no other remote answer.
C12_HandshakeOnce ==
    LET c == call["A"]
    IN /\ (c.op \in {"CreateRoom", "JoinRoom"} /\ c.pre.roomCode # EmptyToken) =>
              ~Generated(c)
       /\ (c.op = "AcceptAnswer" /\ c.pre.last = "AcceptAnswer" /\ c.pre.applied) =>
              \A i \in DOMAIN c.peerOps : c.peerOps[i].err # "nil"

\* Code points a printable text does not hold: the control characters other
\* than tab, line feed and carriage return, and DEL.
Control == ((0..31) \ {9, 10, 13}) \cup {127}
Printable(x) == x.runes \cap Control = {}

\* C13: for every printable text x of 1 to 4194304 bytes (JSON, CRLF and
\* non-ASCII included) Encode succeeds, and Decode of the token it returns
\* succeeds and returns x.
C13_CodecRoundTrip ==
    /\ (probe.fn = "Encode" /\ probe.text.len > 0 /\ probe.text.len <= 4194304) =>
          probe.err = "nil"
    /\ (probe.fn = "Roundtrip" /\ Printable(probe.text)) =>
          probe.err = "nil" /\ probe.out = probe.text
C13_Witness ==
    /\ probe.fn = "Roundtrip"
    /\ probe.text.len = 4194304
    /\ probe.text.runes = {233, 20013, 128512}
    /\ probe.err = "nil"
    /\ probe.out = probe.text

\* C14: Decode returns the empty text with every error; the empty token gets
\* the empty-input error, a shorter token than 10 the too-short error
\* whatever its characters, a token of 10 or more with a character outside
\* the alphabet the invalid-characters error; then come the corrupt payload,
\* the oversized payload and the non-printable result, in that order.
C14_DecodeRejects ==
    LET t == probe.tok
        whole == t.gz /\ t.len = B64Chars(18 + t.payload.z)
    IN probe.fn = "Decode" =>
        /\ probe.err # "nil" => probe.out = EmptyText
        /\ t.len = 0 => probe.err = "encoded string cannot be empty"
        /\ (t.len > 0 /\ t.len < 10) => probe.err = "encoded string too short"
        /\ (t.len >= 10 /\ ~t.alpha) =>
              probe.err = "invalid base64url characters in encoded string"
        /\ (t.len >= 10 /\ t.alpha /\ ~whole) =>
              probe.err \in {"failed to decode base64url", "failed to decompress data"}
        /\ (t.len >= 10 /\ t.alpha /\ whole /\ t.payload.len > 4194304) =>
              probe.err = "decompressed SDP too large"
        /\ (t.len >= 10 /\ t.alpha /\ whole /\ t.payload.len <= 4194304
              /\ ~Printable(t.payload)) =>
              probe.err = "result contains non-printable characters"
C14_Witness ==
    /\ probe.fn = "Decode"
    /\ probe.tok.len = 9
    /\ ~probe.tok.alpha
    /\ probe.err = "encoded string too short"
    /\ probe.out = EmptyText

\* C15: Encode returns the empty token with the empty-input error for the
\* empty text and with the too-large error for a text of more than 4194304
\* bytes; it accepts 4194304 bytes; a token it returns is non-empty and
\* holds characters of the base64url alphabet only, no '='.
C15_EncodeBounds ==
    probe.fn = "Encode" =>
        /\ probe.text.len = 0 =>
              probe.err = "SDP cannot be empty" /\ probe.tok = EmptyToken
        /\ probe.text.len > 4194304 =>
              probe.err = "SDP too large" /\ probe.tok = EmptyToken
        /\ (probe.text.len > 0 /\ probe.text.len <= 4194304) =>
              /\ probe.err = "nil"
              /\ probe.tok.len > 0
              /\ probe.tok.alpha
              /\ probe.tok.len % 4 # 1
C15_Witness ==
    /\ probe.fn = "Encode"
    /\ probe.text.len = 4194304
    /\ probe.err = "nil"
    /\ probe.tok.len = 5486

\* C16: for every message with a type of chat, join or leave, a non-empty
\* sender, a text of 0 to 1000 bytes and a timestamp of 0 or more, Unmarshal
\* of what Marshal returns succeeds and returns the message, field by field.
C16_WireRoundTrip ==
    (/\ probe.fn = "WireRoundtrip"
     /\ probe.msg.type \in {"chat", "join", "leave"}
     /\ probe.msg.from # ""
     /\ StrLen(probe.msg.text) <= 1000
     /\ probe.msg.timestamp >= 0) =>
        /\ probe.err = "nil"
        /\ probe.out.type = probe.msg.type
        /\ probe.out.from = probe.msg.from
        /\ probe.out.text = probe.msg.text
        /\ probe.out.timestamp = probe.msg.timestamp

\* The value of a field of a parsed record: the zero value if it is absent.
Got(data, k) == IF k \in DOMAIN data.fields THEN data.fields[k] ELSE ZeroMessage[k]

\* C17: bytes that do not parse get the malformed-payload error; a parsed
\* record gets the type-missing error if its type is absent or empty,
\* otherwise the sender-missing error if its sender is absent or empty,
\* otherwise the unknown-type error if its type is none of chat, join, leave,
\* otherwise the too-long error if its text has 1001 bytes or more, otherwise
\* the timestamp error if its timestamp is negative, and otherwise succeeds
\* (a text of exactly 1000 bytes and the timestamp 0 included).
C17_UnmarshalValidates ==
    LET d == probe.data
    IN probe.fn = "Unmarshal" =>
        probe.err =
            IF ~d.json THEN "invalid JSON format"
            ELSE IF Got(d, "type") = "" THEN "message type is required"
            ELSE IF Got(d, "from") = "" THEN "from field is required"
            ELSE IF Got(d, "type") \notin {"chat", "join", "leave"} THEN "invalid message type"
            ELSE IF StrLen(Got(d, "text")) >= 1001 THEN "message text exceeds maximum length"
            ELSE IF Got(d, "timestamp") < 0 THEN "invalid timestamp"
            ELSE "nil"
C17_Witness ==
    /\ probe.fn = "Unmarshal"
    /\ probe.data.json
    /\ DOMAIN probe.data.fields = Fields
    /\ probe.data.fields.text = "max"
    /\ probe.data.fields.timestamp = 0
    /\ probe.err = "nil"
    /\ probe.out = probe.data.fields

\* C18: with every error Unmarshal returns the zero message: no field of the
\* rejected record reaches the caller.
C18_ZeroOnError ==
    (probe.fn = "Unmarshal" /\ probe.err # "nil") =>
        probe.out = [type |-> "", from |-> "", text |-> "", timestamp |-> 0]
C18_Witness ==
    /\ probe.fn = "Unmarshal"
    /\ probe.data.json
    /\ DOMAIN probe.data.fields = Fields
    /\ probe.data.fields.type = "invalid"
    /\ probe.data.fields.from = "alice"
    /\ probe.data.fields.text = "max"
    /\ probe.err = "invalid message type"
    /\ probe.out = ZeroMessage

\* The records the handler of `s` took from the channel, in the order taken,
\* and those among them that are valid messages.
Delivered(s) == SubSeq(wire[Other(s)], 1, inbox[s])
\* Those of them the handler has returned for.
Handled(s) ==
    SubSeq(wire[Other(s)], 1, inbox[s] - Cardinality({u \in BagToSet(pending[s]) : u.kind = "inbound"}))
IsMessageEvent(c) == c.ev = "message"
RECURSIVE ValidOf(_)
ValidOf(q) ==
    IF q = <<>> THEN <<>>
    ELSE IF Unmarshal(Head(q)).err = "nil"
         THEN <<Unmarshal(Head(q)).msg>> \o ValidOf(Tail(q))
         ELSE ValidOf(Tail(q))
RECURSIVE ArgsOf(_)
ArgsOf(q) == IF q = <<>> THEN <<>> ELSE <<Head(q).arg>> \o ArgsOf(Tail(q))

\* C19: inbound messages are not reordered, batched or duplicated: the
\* messages the caller's message callback was invoked with so far are, in the
\* order of the invocations, the first of the valid messages the transport
\* delivered, under every scheduling of the dispatched callbacks.
C19_InboundOrder ==
    slots["A"]["onMessage"] # Nil =>
        LET ran == ArgsOf(SelectSeq(calls["A"], IsMessageEvent))
            got == ValidOf(Delivered("A"))
        IN /\ Len(ran) <= Len(got)
           /\ \A i \in 1..Len(ran) : ran[i] = got[i]

\* What the handler starts for the records `q` with message callback `m` and
\* error callback `e`: one event a record, none where no callback is there.
RECURSIVE Surfaced(_, _, _)
Surfaced(q, m, e) ==
    IF q = <<>> THEN <<>>
    ELSE LET bad == Unmarshal(Head(q)).err # "nil"
             f == IF bad THEN e ELSE m
         IN (IF f = Nil THEN <<>> ELSE <<[ev |-> IF bad THEN "error" ELSE "message", f |-> f]>>)
            \o Surfaced(Tail(q), m, e)
RanAt(s, ev) == {i \in DOMAIN calls[s] : calls[s][i].ev = ev}
IsInbound(c) == c.ev \in {"message", "error"}
Waiting(s) ==
    BagCardinality([t \in {u \in BagToSet(pending[s]) : IsInbound(u) /\ u.kind = "callback"}
                        |-> pending[s][t]])

\* C20: bytes that fail Unmarshal get the error callback, if one is
\* registered, with an error, and never the message callback; the valid
\* messages before and after them get the message callback; every callback
\* started runs at most once and with the error or the message of a record
\* taken; and the step that takes a record leaves the connected flag, the
\* room code and the peer as they were.
C20_InboundErrors ==
    /\ [](/\ SelectSeq(fired["A"], IsInbound)
                = Surfaced(Handled("A"), slots["A"]["onMessage"], slots["A"]["onError"])
          /\ Cardinality(RanAt("A", "error")) + Cardinality(RanAt("A", "message")) + Waiting("A")
                = Len(SelectSeq(fired["A"], IsInbound))
          /\ \A i \in RanAt("A", "error") :
                /\ calls["A"][i].f = slots["A"]["onError"]
                /\ calls["A"][i].arg.error = "invalid message received"
                /\ \E k \in 1..inbox["A"] :
                        /\ Unmarshal(wire["B"][k]).err # "nil"
                        /\ Unmarshal(wire["B"][k]).err = calls["A"][i].arg.cause
          /\ \A i \in RanAt("A", "message") :
                /\ calls["A"][i].f = slots["A"]["onMessage"]
                /\ \E k \in 1..inbox["A"] :
                        /\ Unmarshal(wire["B"][k]).err = "nil"
                        /\ Unmarshal(wire["B"][k]).msg = calls["A"][i].arg)
    /\ [][inbox'["A"] # inbox["A"] =>
            /\ isConnected'["A"] = isConnected["A"]
            /\ roomCode'["A"] = roomCode["A"]
            /\ peer'["A"] = peer["A"]]_vars
C20_Witness ==
    /\ isConnected["A"]
    /\ inbox["A"] = 3
    /\ Unmarshal(wire["B"][1]).err = "nil"
    /\ Unmarshal(wire["B"][2]).err = "invalid JSON format"
    /\ Unmarshal(wire["B"][3]).err = "nil"
    /\ pending["A"] = EmptyBag
    /\ Cardinality(RanAt("A", "error")) = 1
    /\ Cardinality(RanAt("A", "message")) = 2
    /\ ChannelOpen(peer["A"])

\* The handler invocation `h` of session A takes a step.
Steps(h) ==
    /\ h \in DOMAIN handlers["A"]
    /\ handlers["A"][h].pc # "idle"
    /\ handlers'["A"][h] # handlers["A"][h]

\* C24: the handler of a notification sets the connected flag to TRUE if and
\* only if the state is "connected" and to FALSE if and only if it is
\* "disconnected", "failed" or "closed"; the handler of any other state
\* leaves the flag as it is and starts no callback and no join send,
\* whatever the flag is.
C24_ThreeWayMapping ==
    [][\A h \in DOMAIN handlers["A"] :
          Steps(h) =>
            LET st == handlers["A"][h].state
            IN /\ handlers["A"][h].pc = "lock" =>
                    isConnected'["A"] =
                        IF st = "connected" THEN TRUE
                        ELSE IF st \in {"disconnected", "failed", "closed"} THEN FALSE
                        ELSE isConnected["A"]
               /\ st \notin {"connected", "disconnected", "failed", "closed"} =>
                    /\ isConnected'["A"] = isConnected["A"]
                    /\ fired'["A"] = fired["A"]
                    /\ pending'["A"] = pending["A"]]_vars

\* The call the session last made handed its peer the operation `op`.
Reached(s, op) == \E i \in DOMAIN call[s].peerOps : call[s].peerOps[i].op = op

\* C27: AcceptAnswer reaches the peer's SetRemoteAnswer only on a session
\* whose CreateRoom has succeeded: the room code is the session's own offer
\* and the session is not connected. On an idle session, on one that joined
\* a room, on a connected one and on one Disconnect has closed, AcceptAnswer
\* does not reach SetRemoteAnswer.
C27_AcceptAnswerGated ==
    (call["A"].op = "AcceptAnswer" /\ Reached("A", "SetRemoteAnswer")) =>
        /\ call["A"].pre.roomCode = Encode(Descriptor("offer", "A")).tok
        /\ ~call["A"].pre.isConnected

\* The join sends started and not yet run, in a bag of goroutines.
IsJoin(t) == t.kind = "join" /\ t.arg = Marshal([type |-> "join", from |-> "alice", text |-> "", timestamp |-> Now])
Joins(bag) == BagCardinality([t \in {u \in BagToSet(bag) : IsJoin(u)} |-> bag[t]])

\* C28: a handler that took the flag from FALSE to TRUE starts exactly one
\* send of a join message from the local user, after the transition and on a
\* goroutine of its own, and no other handler starts one; the send, failed or
\* not, changes neither the flag nor the callbacks started or run, and no
\* call's result.
C28_JoinBroadcast ==
    /\ [][\A h \in DOMAIN handlers["A"] :
            (Steps(h) /\ handlers["A"][h].pc = "check1") =>
                Joins(pending'["A"]) - Joins(pending["A"]) =
                    IF handlers["A"][h].state = "connected" /\ ~handlers["A"][h].was
                    THEN 1 ELSE 0]_vars
    /\ [][Joins(pending'["A"]) < Joins(pending["A"]) =>
            /\ isConnected' = isConnected
            /\ fired' = fired
            /\ calls' = calls
            /\ call' = call]_vars

\* The number of positions of the sequence `q` that hold `x`.
Count(q, x) == Cardinality({i \in DOMAIN q : q[i] = x})
IsStateEvent(c) == c.ev \in {"connected", "disconnected"}

\* C30: every record that passes Unmarshal is handed to the message callback
\* exactly once whatever its type: for a chat, a join and a leave message
\* alike, as many invocations are started as records of it were taken, each
\* with the message as it was sent; and taking a record changes neither the
\* connected flag nor the connected and disconnected callbacks started.
C30_ForwardsAllTypes ==
    /\ [](slots["A"]["onMessage"] # Nil =>
            \A d \in {wire["B"][k] : k \in 1..inbox["A"]} :
                (d.json /\ DOMAIN d.fields = {"type", "from", "text", "timestamp"}
                    /\ d.fields.type \in {"chat", "join", "leave"}) =>
                    Count(Handled("A"), d)
                        = Count(ArgsOf(SelectSeq(calls["A"], IsMessageEvent)), d.fields)
                            + CopiesIn(Task("callback", "message", slots["A"]["onMessage"], d.fields),
                                       pending["A"]))
    /\ [][inbox'["A"] # inbox["A"] =>
            /\ isConnected'["A"] = isConnected["A"]
            /\ SelectSeq(fired'["A"], IsStateEvent) = SelectSeq(fired["A"], IsStateEvent)]_vars
C30_Witness ==
    /\ isConnected["A"]
    /\ inbox["A"] = 3
    /\ {wire["B"][k].fields.type : k \in 1..3} = {"chat", "join", "leave"}
    /\ pending["A"] = EmptyBag
    /\ Cardinality(RanAt("A", "message")) = 3

\* C22: Send returns the channel-not-open error and hands nothing to the
\* engine whenever the peer has no data channel yet or its channel is not
\* open: on a fresh peer, on an offerer whose channel is created and not yet
\* opened, on an answerer whose inbound channel has not arrived, and after
\* Close.
C22_SendNeedsOpenChannel ==
    /\ []((/\ probe.fn = "Send"
            /\ \/ probe.peer.dc \in {"nil", "connecting", "closed"}
               \/ probe.peer.closed
               \/ probe.peer = NewPeer) =>
                /\ probe.err = "data channel not open"
                /\ ~probe.handed)
    /\ [][(probe'.fn = "Send" /\ probe' # probe /\ probe'.err = "data channel not open") =>
            wire' = wire]_vars
C22_Witness ==
    /\ probe.fn = "Send"
    /\ probe.peer.dc = "connecting"
    /\ probe.peer.sig = "have-local-offer"
    /\ ~probe.peer.closed
    /\ probe.err = "data channel not open"
    /\ wire["A"] # <<>>

\* C25: while a CreateRoom or JoinRoom call waits inside the peer for the
\* end of candidate gathering, the session lock is not held, so that the
\* other calls and the state handler need not wait for gathering.
C25_GatherWithoutLock ==
    \A t \in DOMAIN threads :
        At(t, {"CreateRoom", "JoinRoom"}, "gather") => ~Holds(mu.client, t)

\* C26: CreateOffer and CreateAnswer return a descriptor, and CreateRoom and
\* JoinRoom a token, only after the engine signalled that gathering is
\* complete; a call that waits for gathering leaves the wait by that signal
\* only, whatever else happens, a Close of the peer included.
Gathering(t) == t \in DOMAIN threads /\ threads[t].pc = "gather"
Returned(t) == threads[t].sdp # EmptyText \/ threads[t].ret # EmptyToken
C26_ReturnsAfterGathering ==
    /\ [](\A t \in DOMAIN threads : Returned(t) => threads[t].gathered)
    /\ [][\A t \in DOMAIN threads :
            (Gathering(t) /\ threads'[t].pc # "gather") =>
                /\ threads'[t].pc = "gathered"
                /\ threads'[t].gathered
                /\ peer' = peer]_vars
C26_Witness ==
    \E t, u \in DOMAIN threads :
        /\ threads[t].op = "PeerCreateOffer" /\ Returned(t) /\ threads[t].gathered
        /\ threads[u].op = "PeerCreateAnswer" /\ Gathering(u)
        /\ peer["A"].closed

\* C21: a user callback never runs on a goroutine that holds the session
\* lock; whoever holds the lock is between its Lock and its Unlock and gets
\* to the Unlock without waiting for anything, so a callback that calls back
\* into the session is never left waiting: while a goroutine of the session
\* has not returned, some goroutine can take a step.
Live(t) == threads[t].pc \notin {"done", "panic"}
C21_CallbacksOutsideLock ==
    /\ \A t \in DOMAIN threads :
            threads[t].pc \in {"run", "sleep"} => ~Holds(mu.client, t)
    /\ \A t \in DOMAIN threads :
            Holds(mu.client, t) => threads[t].pc \in {"body", "close", "unlock"}
    /\ (\E t \in DOMAIN threads : Live(t)) => ENABLED (LockStep \/ CallbackStep)
C21_Witness ==
    \E t, u \in DOMAIN threads :
        /\ threads[t].cb /\ threads[t].ev = "connected"
        /\ threads[t].op = "Disconnect" /\ threads[t].pc = "done"
        /\ threads[u].cb /\ threads[u].ev = "disconnected"
        /\ threads[u].op = "SendMessage" /\ threads[u].pc = "done"
        /\ threads[u].err = "not connected to any room"

\* C29: a setter replaces the callback of its own event and changes neither
\* the other three callbacks nor the connected flag nor the room code; the
\* callback an event invokes is the one registered when the dispatch took
\* the lock, so never one replaced before that, and an event invokes at most
\* one callback.
EventSlot(ev) ==
    CASE ev = "message" -> "onMessage" [] ev = "error" -> "onError"
      [] ev = "connected" -> "onConnected" [] OTHER -> "onDisconnected"
Invoked == {t \in DOMAIN threads : threads[t].cb}
C29_SingleSlots ==
    /\ [](\A t \in Invoked :
            /\ threads[t].f # Nil
            /\ threads[t].f = threads[t].begin[EventSlot(threads[t].ev)])
    /\ [](Cardinality(Invoked) <= Started("engine") + Started("channel"))
    /\ [][\A t \in DOMAIN threads :
            (At(t, Setters, "body") /\ threads'[t].pc = "unlock") =>
                /\ slots'["A"] = [slots["A"] EXCEPT ![SlotOf(threads[t].op)] = threads[t].val]
                /\ isConnected' = isConnected
                /\ roomCode' = roomCode]_vars
C29_Witness ==
    \E t, u \in DOMAIN threads :
        /\ threads[t].op = "OnMessage" /\ threads[t].val = 2 /\ threads[t].pc = "done"
        /\ threads[u].cb /\ threads[u].ev = "message" /\ threads[u].f = 2
        /\ slots["A"] = [NoSlots EXCEPT !["onConnected"] = 1, !["onDisconnected"] = 1,
                                        !["onMessage"] = 2, !["onError"] = 1]

\* C23: the peer's OnMessage and OnStateChange may be called from any
\* goroutine, also from inside a callback the engine is running, and nobody
\* is left waiting; the engine copies the callback under the read lock, when
\* no setter is between its Lock and its Unlock, and calls that one value
\* after the unlock, or nothing when the copy is nil.
Dispatches == {t \in DOMAIN threads : threads[t].ev \in {"state", "data"}}
PastInvoke(t) == threads[t].pc \in {"run", "done"} \/ threads[t].op \in PeerSetters
C23_PeerCallbackSafety ==
    /\ \A t \in Dispatches :
            /\ (threads[t].op = threads[t].ev /\ threads[t].pc = "unlock") =>
                    threads[t].f = peerSlots[PeerSlotOf(threads[t].ev)]
            /\ threads[t].cb => threads[t].f # Nil /\ PastInvoke(t)
            /\ (PastInvoke(t) /\ ~threads[t].cb) => threads[t].f = Nil
    /\ \A t \in DOMAIN threads :
            Holds(mu.peer, t) => threads[t].pc \in {"body", "unlock"}
    /\ (\E t \in DOMAIN threads : Live(t)) => ENABLED PeerStep
C23_Witness ==
    \E t, u \in Dispatches :
        /\ threads[t].ev = "state" /\ threads[t].cb /\ threads[t].f = 1
        /\ threads[t].op = "PeerOnStateChange" /\ threads[t].pc = "done"
        /\ threads[u].ev = "state" /\ threads[u].cb /\ threads[u].f = 3
        /\ threads[u].pc = "run"

\* C31: whenever the session leaves the connected state, by Disconnect or by
\* a state the transport reports, the room code is empty afterwards.
C31_TokenClearedOnDisconnect ==
    [][(isConnected["A"] /\ ~isConnected'["A"]) => roomCode'["A"] = EmptyToken]_vars

\* C33: the body bound counts characters: of the records that are valid in
\* every other respect, Unmarshal rejects with the body-too-long error
\* exactly those whose body has more than MaxTextLength characters, so a
\* body of 1000 two-byte characters is accepted.
RuneCount(t) == IF t = "wide" THEN 1000 ELSE IF t \in {"raw", "fffd"} THEN 1 ELSE StrLen(t)
OtherwiseValid(m) ==
    /\ m.type \in {TypeChat, TypeJoin, TypeLeave}
    /\ m.from # ""
    /\ m.timestamp >= 0
C33_BodyBoundInCharacters ==
    (probe.fn = "Unmarshal" /\ probe.data.json /\ OtherwiseValid(ParseFields(probe.data.fields))) =>
        /\ probe.err \in {"nil", "message text exceeds maximum length"}
        /\ probe.err = "message text exceeds maximum length"
                <=> RuneCount(ParseFields(probe.data.fields).text) > MaxTextLength

\* C35: what SendMessage accepts and hands to the transport, the receiving
\* session accepts: for every text that passes SendMessage's checks, the
\* record Marshal writes passes Unmarshal, and the receiving handler starts
\* the message callback, not the error callback.
SentBy(s, m) == m = NewMessage(TypeChat, Username(s), m.text)
C35_SentChatAccepted ==
    (/\ probe.fn = "WireRoundtrip"
     /\ SentBy("A", probe.msg)
     /\ SendMessageError(TRUE, probe.msg.text) = "nil") =>
        /\ probe.err = "nil"
        /\ InboundTask([k \in SlotNames |-> 1], [msg |-> probe.out, err |-> probe.err]).ev
                = "message"

\* C32: a CreateRoom, JoinRoom or AcceptAnswer whose peer call fails returns
\* an error and changes neither the connected flag nor the room code; the
\* same call made again right after it passes the same checks as on a
\* session that never failed and, when it passes them, reaches the peer
\* again.
Handshake == {"CreateRoom", "JoinRoom", "AcceptAnswer"}
PeerFailed(c) ==
    c.op \in Handshake /\ c.peerOps # <<>> /\ c.peerOps[Len(c.peerOps)].err # "nil"
ChecksPass(op, connected, code) ==
    CASE op = "CreateRoom" -> ~connected
      [] op = "JoinRoom" -> JoinRoomError(connected, code) = "nil"
      [] OTHER -> AcceptAnswerError(code) = "nil"
C32_PeerErrorAborts ==
    [][budget'["A"] < budget["A"] =>
        /\ PeerFailed(call'["A"]) =>
                /\ call'["A"].err \in {"failed to create offer", "failed to create answer",
                                       "failed to set remote answer"}
                /\ call'["A"].val = EmptyToken
                /\ isConnected'["A"] = isConnected["A"]
                /\ roomCode'["A"] = roomCode["A"]
        /\ (PeerFailed(call["A"]) /\ call'["A"].op = call["A"].op
                /\ call'["A"].code = call["A"].code) =>
                (call'["A"].peerOps # <<>>
                    <=> ChecksPass(call["A"].op, isConnected["A"], call["A"].code))]_vars
C32_Witness ==
    /\ call["A"].op = "CreateRoom" /\ call["A"].err = "nil"
    /\ call["A"].pre.last = "CreateRoom" /\ call["A"].pre.roomCode = EmptyToken
    /\ roomCode["A"] = call["A"].val /\ roomCode["A"] # EmptyToken
    /\ ~isConnected["A"]
    /\ budget["A"] = MaxOps - 2

\* C34: once Disconnect has returned the session stays disconnected: no
\* state the transport reports, before or after, sets the flag again.
C34_ClosedForGood ==
    call["A"].op = "Disconnect" => ~isConnected["A"]

\* C36: on the wire from the session the join announcement precedes every
\* chat message: each chat record handed to the transport has a join record
\* handed to it before.
WireType(d) == ParseFields(d.fields).type
C36_JoinBeforeChat ==
    \A i \in DOMAIN wire["A"] :
        WireType(wire["A"][i]) = TypeChat =>
            \E j \in 1..(i - 1) : WireType(wire["A"][j]) = TypeJoin

\* C37: on the wire from the session a leave message is never followed by
\* the session's join message, however the delayed join send and Disconnect
\* interleave.
C37_NoJoinAfterLeave ==
    \A i \in DOMAIN wire["A"] :
        WireType(wire["A"][i]) = TypeLeave =>
            \A j \in (i + 1)..Len(wire["A"]) : WireType(wire["A"][j]) # TypeJoin

\* C38: SendMessage and Disconnect exclude each other on the session lock:
\* a SendMessage that meets a Disconnect hands its chat message to the
\* transport before the leave message or fails with the not-connected
\* error, and no chat message follows the leave message on the wire.
Disconnecting == \E d \in DOMAIN threads : threads[d].op = "Disconnect"
SendOrRefused ==
    \A t \in DOMAIN threads :
        (Disconnecting /\ threads[t].op = "SendMessage" /\ threads[t].pc \in {"unlock", "done"})
            => threads[t].err \in {"nil", "not connected to any room"}
NoChatAfterLeave ==
    \A i \in DOMAIN wire["A"] :
        WireType(wire["A"][i]) = TypeLeave =>
            \A j \in (i + 1)..Len(wire["A"]) : WireType(wire["A"][j]) # TypeChat
C38_SendExcludesDisconnect == SendOrRefused /\ NoChatAfterLeave

\* C39: for one period in which the session was connected the disconnected
\* callback is invoked at most once, by Disconnect's delayed notification or
\* by the handler of a state the transport reports, however the two
\* interleave.
OnePeriod == \A t \in DOMAIN threads : threads[t].op = "handler" => threads[t].state # "connected"
Firings == {t \in DOMAIN threads : threads[t].ev = "disconnected" /\ threads[t].pc \in {"run", "done"}}
C39_DisconnectedOnce == OnePeriod => Cardinality(Firings) <= 1

\* C40: Disconnect's delayed notification never calls a nil function: when
\* the disconnected callback is replaced, by nil too, after Disconnect tested
\* the slot and before the delayed goroutine runs, the goroutine calls a
\* callback that is not nil or calls nothing.
C40_DelayedNeverNil ==
    /\ \A i \in DOMAIN calls["A"] :
            calls["A"][i].ev \in {"disconnected", "panic"} =>
                calls["A"][i].ev # "panic" /\ calls["A"][i].f # Nil
    /\ \A t \in DOMAIN threads :
            threads[t].op = "delayed" =>
                /\ threads[t].pc # "panic"
                /\ threads[t].pc \in {"run", "done"} => threads[t].f # Nil

====
